---------------------------- MODULE Spec2Model ----------------------------
(***************************************************************************)
(* A model of the auth-component detector (dhrumilankola/web-scrapper):    *)
(*   - BrowserPool           src/lib/scraper.ts 490-743                     *)
(*   - scrapeWebsite / POST  src/lib/scraper.ts 108-193, route.ts 38-175    *)
(*   - DetectionCache        src/unnamed/part_002                           *)
(*   - detectAuthentication  src/unnamed/part_001                           *)
(* Each subsystem has its own specification (SpecPool, SpecRequest,        *)
(* SpecCache, SpecNorm, SpecDetect) over its own group of variables; the   *)
(* other groups stay at their initial value.                               *)
(***************************************************************************)
EXTENDS Integers, Sequences, FiniteSets, TLC

VARIABLES
  \* ---- BrowserPool (src/lib/scraper.ts 490-497) ----
  browser,            \* this.browser: 0 = null, else the id of a launched browser
  isInitializing,     \* this.isInitializing
  initPromise,        \* this.initPromise: 0 = null, else the id of the launch it stands for
  lastUsed,           \* this.lastUsed (ms)
  idleCheckInterval,  \* this.idleCheckInterval: TRUE = an interval timer is armed
  now,                \* Date.now() (ms)
  proc,               \* per launch id: the browser process / launch promise state
  closePending,       \* per browser id: closeBrowser calls suspended in `await browser.close()`
  pc,                 \* per caller of createContext: where it is suspended
  awaited,            \* per caller: the launch whose promise getBrowser returned to it (0: none)
  got,                \* per caller: the browser its newContext() call was issued on (0: none)
  afterTeardown,      \* per caller: closeBrowser had been entered when the call was made
  \* ---- POST /api/detect, per request (route.ts 38-175, scraper.ts 108-193) ----
  rpc,                \* where the POST handler is
  spc,                \* where performScrape is (it keeps running after the race is lost)
  raceSettled,        \* executeWithTimeout's Promise.race has settled
  scrapeResult,       \* what scrapeWebsite returned to the handler (NoResult before)
  page,               \* the Page of this request: "none", "open", "closed"
  context,            \* the BrowserContext of this request: "none", "open", "closed"
  routePageCloses,    \* calls of scrapeResult.page.close() made by the handler
  routeCtxCloses,     \* calls of browserPool.closeContext() made by the handler
  response,           \* the HTTP response (NoResponse before)
  reqUrl,             \* the url of the request body (NoUrl before, or when it has none)
  \* ---- normalizeURL applied to a pair of URLs (part_002 113-133) ----
  urlA,               \* a URL string, as a sequence of tokens
  urlB,               \* a second URL string, a variation of urlA
  variation,          \* how urlB differs from urlA
  keyA,               \* normalizeURL(urlA), NotYet before the call
  keyB,               \* normalizeURL(urlB), NotYet before the call
  keyAA,              \* normalizeURL(keyA), NotYet before the call
  \* ---- DetectionCache (part_002) ----
  cache,              \* this.cache: the entries, least recently used first
  stats,              \* this.stats: hits and misses
  clock,              \* Date.now() / performance.now() seen by the cache (ms)
  ticks,              \* number of times the clock was advanced
  MAX_SIZE,              \* CACHE_CONFIG.MAX_SIZE of the build, the capacity of the cache
  CACHE_EMPTY_RESULTS,   \* CACHE_CONFIG.CACHE_EMPTY_RESULTS of the build
  CACHE_PATTERN_RESULTS, \* CACHE_CONFIG.CACHE_PATTERN_RESULTS of the build
  setLog,             \* history: per key, the last call of set that stored an entry, until
                      \* the entry is invalidated, cleared or evicted
  lastOp,             \* history: the last call made on the cache, what it returned and
                      \* the keys it dropped for lack of room
  \* ---- detectAuthentication (part_001 108-153) ----
  apiKey,             \* process.env.GEMINI_API_KEY is set
  dom,                \* the page: has a password form, has an OAuth provider button
  hung,               \* the awaited operation that never settles ("none": all settle)
  dpc,                \* where detectAuthentication is
  aiResponse,         \* what parseAIResponse returned
  aiFailed,           \* "no", or how the AI path failed
  patternRan,         \* detectWithPatterns ran
  detectThrew,        \* detectAuthentication rejected
  detectResult,       \* the DetectionResult returned (NoDetection before)
  \* ---- truncateSnippet (part_001 976-1017) ----
  paText,             \* the responseText passed to parseAIResponse, a sequence of tokens
  paResult,           \* what parseAIResponse did (NotParsed before)
  \* ---- the work that races a timer (part_001 478-513, 769-793; scraper.ts 432-444) ----
  bgHandler,          \* where the POST handler of the request is
  bgPage,             \* the Page of the request: "open" or "closed"
  bgWork,             \* per race, the state of the work that races the timer
  bgLog,              \* history: the operations issued on the page, and its state then
  \* ---- the snippet attached to a component (part_001 546-560, 898-902, 941-947) ----
  atPath,             \* the code path that attaches the snippet
  atOuter,            \* the outerHTML extractWithSelector returned, a sequence of characters
  atSnippet,          \* component.snippet (NotYet before)
  truncIn,            \* the snippet passed to truncateSnippet, a sequence of characters
  truncOut,           \* what truncateSnippet returned, NotYet before the call
  \* ---- intelligentFallbackExtraction (part_001 621-642) ----
  fbType,             \* component.type
  fbPage,             \* the features of the page the fallback selectors look for
  fbProviders,        \* component.details.providers
  fbResult,           \* how the call ended: raised, or the value returned
  csSelector,         \* component.details.playwrightSelector, by what it does on the page
  csResult,           \* what extractComponentSnippet returned (NoSnippet before)
  \* ---- extractOAuthFallback (part_001 648-704) ----
  ofProviders,        \* component.details.providers
  ofElapsed,          \* Date.now() - startTime, in milliseconds
  ofLog,              \* history: the attempts made, in order
  ofResult,           \* the value returned (NoOAuthFallback before)
  \* ---- tryStrategiesSequentially (part_001 798-813) ----
  tsType,             \* the fallback that runs: "traditional" or "passwordless"
  tsOutcomes,         \* per strategy, what its selector does on the page
  tsLog,              \* history: the strategies tried, in order
  tsResult,           \* the value returned (NoCascade before)
  \* ---- detectTraditionalPattern (part_001 876-904) ----
  patPage,            \* the forms of the live page
  patResult,          \* the component returned (NoPattern before)
  \* ---- detectOAuthPattern (part_001 909-949) ----
  oaButtons,          \* the providers named by the text of a button of the page
  oaLinks,            \* the providers named by the text of a link of the page
  oaResult,           \* the component returned (NoOAuthScan before)
  \* ---- triggerAuthModals (src/lib/modern-web-helpers.ts 39-123) ----
  mtLog,              \* history: the triggers examined, in order
  mtLast,             \* what the trigger examined last did ("" before the first)
  mtElapsed,          \* Date.now() - startTime, in milliseconds
  mtResult,           \* how the call ended (NoModalResult before)
  \* ---- extractAllContent (src/lib/scraper.ts 231-270) ----
  eaHtml,             \* what page.content() serialized ("(pending)" before)
  eaResult            \* the value returned (NoContent before)

poolVars == <<browser, isInitializing, initPromise, lastUsed, idleCheckInterval,
              now, proc, closePending, pc, awaited, got, afterTeardown>>

reqVars == <<rpc, spc, raceSettled, scrapeResult, page, context, routePageCloses,
             routeCtxCloses, response, reqUrl>>

normVars == <<urlA, urlB, variation, keyA, keyB, keyAA>>

cacheVars == <<cache, stats, clock, ticks, MAX_SIZE, CACHE_EMPTY_RESULTS, CACHE_PATTERN_RESULTS,
               setLog, lastOp>>

detectVars == <<apiKey, dom, hung, dpc, aiResponse, aiFailed, patternRan, detectThrew,
                detectResult>>

parseVars == <<paText, paResult>>

backgroundVars == <<bgHandler, bgPage, bgWork, bgLog>>

attachVars == <<atPath, atOuter, atSnippet>>

truncVars == <<truncIn, truncOut, parseVars, backgroundVars, attachVars>>

oauthFallbackVars == <<ofProviders, ofElapsed, ofLog, ofResult>>

cascadeVars == <<tsType, tsOutcomes, tsLog, tsResult>>

fallbackVars == <<fbType, fbPage, fbProviders, fbResult, csSelector, csResult,
                  oauthFallbackVars, cascadeVars>>

oauthScanVars == <<oaButtons, oaLinks, oaResult>>

modalVars == <<mtLog, mtLast, mtElapsed, mtResult, eaHtml, eaResult>>

patternVars == <<patPage, patResult, oauthScanVars, modalVars>>

vars == <<poolVars, reqVars, normVars, cacheVars, detectVars, truncVars, fallbackVars,
  patternVars>>

nonPoolVars == <<reqVars, normVars, cacheVars, detectVars, truncVars,
  fallbackVars, patternVars>>

nonReqVars == <<poolVars, normVars, cacheVars, detectVars, truncVars,
  fallbackVars, patternVars>>

nonNormVars == <<poolVars, reqVars, cacheVars, detectVars, truncVars,
  fallbackVars, patternVars>>

nonCacheVars == <<poolVars, reqVars, normVars, detectVars, truncVars,
  fallbackVars, patternVars>>

nonDetectVars == <<poolVars, reqVars, normVars, cacheVars, truncVars,
  fallbackVars, patternVars>>

nonTruncVars == <<poolVars, reqVars, normVars, cacheVars, detectVars,
  fallbackVars, patternVars>>

nonFallbackVars == <<poolVars, reqVars, normVars, cacheVars, detectVars, truncVars, patternVars>>

nonPatternVars == <<poolVars, reqVars, normVars, cacheVars, detectVars, truncVars,
  fallbackVars>>

\* What a step of the POST handler that calls the cache leaves alone.
nonRouteVars == <<poolVars, normVars, detectVars, truncVars, fallbackVars, patternVars>>

(***************************************************************************)
(* Bounds of the model.                                                    *)
(***************************************************************************)
MaxCalls == 2

MaxClose == 1

MaxClock == 6

MaxRequests == 2

MaxWww == 2

MaxSlashes == 2

\* The capacity of the cache (CACHE_CONFIG.MAX_SIZE is 1000), scaled down.
MaxSize == 1

\* The same capacity where the order of eviction is looked at: room for two entries.
MaxSizeLru == 2

MaxTicks == 2

MaxLookups == 2

MaxComponents == 2

\* The cap on a snippet's length (CONFIG.HTML.MAX_SNIPPET is 1500), scaled down.
MAX_SNIPPET == 10

\* The longest response text, in tokens.
MaxTokens == 5

MaxPieces == 4

MaxForms == 2

(***************************************************************************)
(* BrowserPool                                                             *)
(***************************************************************************)
\* The createContext calls of a run, each made once.
Callers == 1..MaxCalls

\* Launch ids: a call starts at most one launch.
Launches == 1..MaxCalls

IDLE_TIMEOUT == 5 * 60 * 1000

CHECK_INTERVAL == 60000

\* browser.isConnected() of the browser with id b
isConnected(b) == proc[b] = "up"

PoolInit ==
  /\ browser = 0
  /\ isInitializing = FALSE
  /\ initPromise = 0
  /\ lastUsed = 0
  /\ idleCheckInterval = FALSE
  /\ now = 0
  /\ proc = [l \in Launches |-> "none"]
  /\ closePending = [l \in Launches |-> 0]
  /\ pc = [c \in Callers |-> "idle"]
  /\ awaited = [c \in Callers |-> 0]
  /\ got = [c \in Callers |-> 0]
  /\ afterTeardown = [c \in Callers |-> FALSE]

\* A getBrowser that never joins the launch in flight.
GetBrowserBranch_NoJoin ==
  IF browser # 0 /\ isConnected(browser) THEN "reuse" ELSE "launch"

\* The three-way decision at the top of getBrowser (lines 508-527).
GetBrowserBranch ==
  IF browser # 0 /\ isConnected(browser) THEN "reuse"
  ELSE IF isInitializing /\ initPromise # 0 THEN "join"
  ELSE "launch"

\* The next unused launch id (0 when the model's supply is used up).
FreshLaunch ==
  IF \E l \in Launches : proc[l] = "none"
  THEN CHOOSE l \in Launches : proc[l] = "none" /\ \A k \in Launches : proc[k] = "none" => l <= k
  ELSE 0

\* closeBrowser has been entered for some browser: its close() is in progress (line 702)
\* or that browser has gone.
TeardownBegun == \E b \in Launches : closePending[b] > 0 \/ proc[b] = "down"

\* createContext(requestId) up to its first suspension: `await this.getBrowser()`.
CreateContext(c) ==
  /\ pc[c] = "idle"
  /\ \/ /\ GetBrowserBranch = "reuse"
        /\ lastUsed' = now
        /\ pc' = [pc EXCEPT ![c] = "newContext"]
        /\ got' = [got EXCEPT ![c] = browser]
        /\ awaited' = [awaited EXCEPT ![c] = 0]
        /\ UNCHANGED <<isInitializing, initPromise, proc>>
     \/ /\ GetBrowserBranch = "join"
        /\ pc' = [pc EXCEPT ![c] = "awaitInit"]
        /\ awaited' = [awaited EXCEPT ![c] = initPromise]
        /\ got' = [got EXCEPT ![c] = 0]
        /\ UNCHANGED <<lastUsed, isInitializing, initPromise, proc>>
     \/ /\ GetBrowserBranch = "launch"
        /\ FreshLaunch # 0
        /\ isInitializing' = TRUE
        /\ initPromise' = FreshLaunch
        /\ proc' = [proc EXCEPT ![FreshLaunch] = "pending"]
        /\ pc' = [pc EXCEPT ![c] = "awaitInit"]
        /\ awaited' = [awaited EXCEPT ![c] = FreshLaunch]
        /\ got' = [got EXCEPT ![c] = 0]
        /\ UNCHANGED lastUsed
  /\ afterTeardown' = [afterTeardown EXCEPT ![c] = TeardownBegun]
  /\ UNCHANGED <<browser, idleCheckInterval, now, closePending>>
  /\ UNCHANGED nonPoolVars

\* chromium.launch() resolved: the .then handler (lines 551-567), after which every
\* caller awaiting the promise resumes in the same microtask drain and issues newContext().
LaunchSucceed(l) ==
  /\ proc[l] = "pending"
  /\ proc' = [proc EXCEPT ![l] = "up"]
  /\ browser' = l
  /\ isInitializing' = FALSE
  /\ lastUsed' = now
  /\ idleCheckInterval' = TRUE
  /\ pc' = [c \in Callers |-> IF pc[c] = "awaitInit" /\ awaited[c] = l THEN "newContext" ELSE pc[c]]
  /\ got' = [c \in Callers |-> IF pc[c] = "awaitInit" /\ awaited[c] = l THEN l ELSE got[c]]
  /\ UNCHANGED <<initPromise, now, closePending, awaited, afterTeardown>>
  /\ UNCHANGED nonPoolVars

\* A .catch handler that leaves the flag and the promise as they are.
LaunchCatch_NoReset == [isInitializing |-> isInitializing, initPromise |-> initPromise]

\* The assignments of the .catch handler (lines 569-570).
LaunchCatch == [isInitializing |-> FALSE, initPromise |-> 0]

\* chromium.launch() rejected: the .catch handler (lines 568-577); the rejection reaches
\* every caller awaiting the promise.
LaunchFail(l) ==
  /\ proc[l] = "pending"
  /\ proc' = [proc EXCEPT ![l] = "failed"]
  /\ isInitializing' = LaunchCatch.isInitializing
  /\ initPromise' = LaunchCatch.initPromise
  /\ pc' = [c \in Callers |-> IF pc[c] = "awaitInit" /\ awaited[c] = l THEN "rejected" ELSE pc[c]]
  /\ UNCHANGED <<browser, lastUsed, idleCheckInterval, now, closePending, awaited, got, afterTeardown>>
  /\ UNCHANGED nonPoolVars

\* browser.newContext() + context.route() settle (lines 604-640): a context on a
\* connected browser, an exception on a browser that has gone.
NewContextSettle(c) ==
  /\ pc[c] = "newContext"
  /\ pc' = [pc EXCEPT ![c] = IF isConnected(got[c]) THEN "haveContext" ELSE "rejected"]
  /\ UNCHANGED <<browser, isInitializing, initPromise, lastUsed, idleCheckInterval,
                 now, proc, closePending, awaited, got, afterTeardown>>
  /\ UNCHANGED nonPoolVars

\* closeContext(context) (lines 651-662), or the caller dropping a rejected call.
CloseContext(c) ==
  /\ pc[c] \in {"haveContext", "rejected"}
  /\ pc' = [pc EXCEPT ![c] = "done"]
  /\ awaited' = [awaited EXCEPT ![c] = 0]
  /\ got' = [got EXCEPT ![c] = 0]
  /\ UNCHANGED <<browser, isInitializing, initPromise, lastUsed, idleCheckInterval,
                 now, proc, closePending, afterTeardown>>
  /\ UNCHANGED nonPoolVars

\* The browser process exits: a crash, or the effect of a close() in progress.
\* Playwright then reports isConnected() = false.
Disconnect(b) ==
  /\ proc[b] = "up"
  /\ proc' = [proc EXCEPT ![b] = "down"]
  /\ UNCHANGED <<browser, isInitializing, initPromise, lastUsed, idleCheckInterval,
                 now, closePending, pc, awaited, got, afterTeardown>>
  /\ UNCHANGED nonPoolVars

PendingCloses == {b \in Launches : closePending[b] > 0}

\* closeBrowser up to `await this.browser.close()` (lines 695-702).
CloseBrowserSync ==
  /\ idleCheckInterval' = FALSE
  /\ closePending' = IF browser # 0
                     THEN [closePending EXCEPT ![browser] = @ + 1]
                     ELSE closePending

\* A call of the public closeBrowser(requestId).
CloseBrowser ==
  /\ \A b \in Launches : closePending[b] < MaxClose
  /\ CloseBrowserSync
  /\ UNCHANGED <<browser, isInitializing, initPromise, lastUsed, now, proc, pc, awaited, got, afterTeardown>>
  /\ UNCHANGED nonPoolVars

\* `await this.browser.close()` settles (resolved or rejected) once the process of b
\* has gone; the finally block (lines 708-710) then clears the handle.
CloseBrowserFinish(b) ==
  /\ closePending[b] > 0
  /\ proc[b] = "down"
  /\ closePending' = [closePending EXCEPT ![b] = @ - 1]
  /\ browser' = 0
  /\ UNCHANGED <<isInitializing, initPromise, lastUsed, idleCheckInterval, now, proc,
                 pc, awaited, got, afterTeardown>>
  /\ UNCHANGED nonPoolVars

\* The armed interval timer fires after one more period (lines 675-686): the clock has
\* advanced by the period and the callback runs.  With no interval armed nothing reads
\* the clock before the next launch resets lastUsed, so the clock is left alone then.
IdleTick ==
  /\ idleCheckInterval
  /\ now < MaxClock * CHECK_INTERVAL
  /\ now' = now + CHECK_INTERVAL
  /\ IF (now' - lastUsed > IDLE_TIMEOUT) /\ browser # 0
     THEN CloseBrowserSync
     ELSE UNCHANGED <<idleCheckInterval, closePending>>
  /\ UNCHANGED <<browser, isInitializing, initPromise, lastUsed, proc, pc, awaited, got, afterTeardown>>
  /\ UNCHANGED nonPoolVars

PoolNext ==
  \/ \E c \in Callers : CreateContext(c)
  \/ \E l \in Launches : LaunchSucceed(l)
  \/ \E l \in Launches : LaunchFail(l)
  \/ \E c \in Callers : NewContextSettle(c)
  \/ \E c \in Callers : CloseContext(c)
  \/ \E b \in Launches : Disconnect(b)
  \/ CloseBrowser
  \/ \E b \in Launches : CloseBrowserFinish(b)
  \/ IdleTick

\* The browser process exits as the effect of the close() in progress on it (line 702).
ClosingExit(b) ==
  /\ closePending[b] > 0
  /\ Disconnect(b)

\* The pool when nothing but the idle monitor closes the browser: no crash and no call of
\* the public closeBrowser.
PoolIdleNext ==
  \/ \E c \in Callers : CreateContext(c)
  \/ \E l \in Launches : LaunchSucceed(l)
  \/ \E l \in Launches : LaunchFail(l)
  \/ \E c \in Callers : NewContextSettle(c)
  \/ \E c \in Callers : CloseContext(c)
  \/ \E b \in Launches : ClosingExit(b)
  \/ \E b \in Launches : CloseBrowserFinish(b)
  \/ IdleTick

(***************************************************************************)
(* URL strings and normalizeURL (part_002 113-133)                         *)
(*                                                                         *)
(* A URL string is a sequence of tokens; each token stands for the         *)
(* characters it spells, "/" for one slash.  Two strings are equal exactly *)
(* when their token sequences are.                                         *)
(***************************************************************************)
SchemeTokens == {"https:", "HTTPS:", "http:"}

HostTokens == {"www.", "WWW.", "example.com", "EXAMPLE.COM", "localhost", "LOCALHOST"}

PortTokens == {":8080"}

SegmentTokens == {"login", "signup"}

QueryTokens == {"?x=1"}

FragmentTokens == {"#top"}

\* ASCII lower-casing as done by the URL parser on scheme and host.
Lower(t) ==
  CASE t = "HTTPS:" -> "https:"
    [] t = "WWW." -> "www."
    [] t = "EXAMPLE.COM" -> "example.com"
    [] t = "LOCALHOST" -> "localhost"
    [] OTHER -> t

LowerAll(s) == [i \in 1..Len(s) |-> Lower(s[i])]

\* The longest prefix of s whose tokens are all in S.
RECURSIVE TakeWhile(_, _)
TakeWhile(s, S) ==
  IF s = <<>> \/ Head(s) \notin S THEN <<>>
  ELSE <<Head(s)>> \o TakeWhile(Tail(s), S)

DropN(s, n) == SubSeq(s, n + 1, Len(s))

NoURL == [ok |-> FALSE, protocol |-> "", hostname |-> <<>>, port |-> <<>>,
          pathname |-> <<>>, search |-> <<>>, hash |-> <<>>]

\* The parts of s that `classes` delimits, in order: the longest prefix of tokens of the
\* first class, then of the second class, and so on; last comes what is left over.
RECURSIVE SplitBy(_, _)
SplitBy(s, classes) ==
  IF classes = <<>> THEN <<s>>
  ELSE <<TakeWhile(s, Head(classes))>>
         \o SplitBy(DropN(s, Len(TakeWhile(s, Head(classes)))), Tail(classes))

\* new URL(url) (part_002 115): scheme "//" host [port] path [query] [fragment].
\* Scheme and host are lower-cased, an empty path becomes "/", and a string without a
\* scheme makes the constructor throw (ok = FALSE).
ParseURL(url) ==
  IF Len(url) < 4 \/ url[1] \notin SchemeTokens \/ url[2] # "/" \/ url[3] # "/"
  THEN NoURL
  ELSE LET parts == SplitBy(DropN(url, 3),
                            <<HostTokens, PortTokens, {"/"} \cup SegmentTokens,
                              QueryTokens, FragmentTokens>>)
           host == parts[1]
           port == parts[2]
           path == parts[3]
           query == parts[4]
           frag == parts[5]
           rest == parts[6]
       IN  IF host = <<>> \/ Len(port) > 1 \/ Len(query) > 1 \/ Len(frag) > 1 \/ rest # <<>>
              \/ (path # <<>> /\ Head(path) # "/")
           THEN NoURL
           ELSE [ok |-> TRUE, protocol |-> Lower(url[1]), hostname |-> LowerAll(host),
                 port |-> port, pathname |-> IF path = <<>> THEN <<"/">> ELSE path,
                 search |-> query, hash |-> frag]

\* hostname.replace(/^www\./, '') (part_002 117, 141): one leading "www." is removed.
StripWww(hostname) ==
  IF hostname # <<>> /\ Head(hostname) = "www." THEN Tail(hostname) ELSE hostname

\* normalizeURL (part_002 113-133).
normalizeURL(url) ==
  LET parsed == ParseURL(url)
      hostname == StripWww(parsed.hostname)
      normalized == <<parsed.protocol, "/", "/">> \o hostname \o parsed.pathname
      root == <<parsed.protocol, "/", "/">> \o hostname \o <<"/">>
  IN  IF ~parsed.ok THEN url
      ELSE IF normalized[Len(normalized)] = "/" /\ normalized # root
           THEN SubSeq(normalized, 1, Len(normalized) - 1)
           ELSE normalized

(***************************************************************************)
(* The URL strings normalizeURL is applied to                              *)
(***************************************************************************)
NotYet == <<"(not yet)">>

Repeat(t, n) == [i \in 1..n |-> t]

WwwPrefixes == {Repeat("www.", k) : k \in 0..MaxWww} \cup {<<"WWW.">>}

Paths == {segs \o Repeat("/", k) : segs \in {<<>>, <<"/", "login">>}, k \in 0..MaxSlashes}

\* The parts a URL string is put together from.
URLParts ==
  [scheme : SchemeTokens, www : WwwPrefixes, host : {"example.com", "EXAMPLE.COM", "localhost"},
   port : {<<>>, <<":8080">>}, path : Paths, query : {<<>>, <<"?x=1">>},
   fragment : {<<>>, <<"#top">>}]

BuildURL(c) ==
  <<c.scheme, "/", "/">> \o c.www \o <<c.host>> \o c.port \o c.path \o c.query \o c.fragment

\* Strings the URL constructor rejects: "", "example.com/login", "not a url".
Unparseable == {<<>>, <<"example.com", "/", "login">>, <<"not a url">>}

SwapCase(t) ==
  CASE t = "example.com" -> "EXAMPLE.COM"
    [] t = "EXAMPLE.COM" -> "example.com"
    [] t = "localhost" -> "LOCALHOST"
    [] t = "LOCALHOST" -> "localhost"
    [] t = "https:" -> "HTTPS:"
    [] t = "HTTPS:" -> "https:"
    [] OTHER -> t

Toggle(s, t) == IF s = <<>> THEN <<t>> ELSE <<>>

Variations == {"same", "query", "fragment", "www", "hostcase", "slash",
               "scheme", "host", "port", "segment"}

\* Whether the variation `kind` applies to the URL built from c.
Applies(c, kind) ==
  CASE kind = "slash" -> c.path # <<>> /\ c.path # <<"/">>
    [] kind = "scheme" -> c.scheme # "HTTPS:"
    [] OTHER -> TRUE

\* The parts of the second URL: those of c, changed in the one respect `kind`.
Vary(c, kind) ==
  CASE kind = "same" -> c
    [] kind = "query" -> [c EXCEPT !.query = Toggle(@, "?x=1")]
    [] kind = "fragment" -> [c EXCEPT !.fragment = Toggle(@, "#top")]
    [] kind = "www" -> [c EXCEPT !.www = <<"www.">> \o @]
    [] kind = "hostcase" -> [c EXCEPT !.host = SwapCase(@)]
    [] kind = "slash" -> [c EXCEPT !.path = @ \o <<"/">>]
    [] kind = "scheme" -> [c EXCEPT !.scheme = IF @ = "https:" THEN "http:" ELSE "https:"]
    [] kind = "host" -> [c EXCEPT !.host = IF Lower(@) = "localhost" THEN "example.com"
                                             ELSE "localhost"]
    [] kind = "port" -> [c EXCEPT !.port = Toggle(@, ":8080")]
    [] kind = "segment" -> [c EXCEPT !.path = <<"/", "signup">> \o @]

NormInit ==
  /\ \/ \E c \in URLParts, kind \in Variations :
          /\ Applies(c, kind)
          /\ urlA = BuildURL(c)
          /\ urlB = BuildURL(Vary(c, kind))
          /\ variation = kind
     \/ \E u \in Unparseable :
          /\ urlA = u
          /\ urlB = u
          /\ variation = "same"
  /\ keyA = NotYet
  /\ keyB = NotYet
  /\ keyAA = NotYet

\* The normalization variables when no URL is being normalized.
NormRest ==
  /\ urlA = <<>>
  /\ urlB = <<>>
  /\ variation = "same"
  /\ keyA = NotYet
  /\ keyB = NotYet
  /\ keyAA = NotYet

NormalizeA ==
  /\ keyA = NotYet
  /\ keyA' = normalizeURL(urlA)
  /\ UNCHANGED <<urlA, urlB, variation, keyB, keyAA>>
  /\ UNCHANGED nonNormVars

NormalizeB ==
  /\ keyB = NotYet
  /\ keyB' = normalizeURL(urlB)
  /\ UNCHANGED <<urlA, urlB, variation, keyA, keyAA>>
  /\ UNCHANGED nonNormVars

\* The key is normalized again, as happens when a key is passed back to get/set/delete.
NormalizeAgain ==
  /\ keyA # NotYet
  /\ keyAA = NotYet
  /\ keyAA' = normalizeURL(keyA)
  /\ UNCHANGED <<urlA, urlB, variation, keyA, keyB>>
  /\ UNCHANGED nonNormVars

NormNext ==
  \/ NormalizeA
  \/ NormalizeB
  \/ NormalizeAgain

(***************************************************************************)
(* DetectionCache (part_002): an LRU cache with per-entry TTL              *)
(***************************************************************************)
DEFAULT_TTL == 24 * 60 * 60 * 1000

\* CACHE_CONFIG.TTL_BY_DOMAIN[hostname] (part_002 31-34); 0 stands for undefined.
TTL_BY_DOMAIN(hostname) ==
  IF hostname \in {<<"localhost">>, <<"127.0.0.1">>} THEN 5 * 60 * 1000 ELSE 0

PATTERN_RESULT_TTL == "null"

\* getTTL (part_002 138-157).
getTTL(url, detectionMethod) ==
  LET parsed == ParseURL(url)
      hostname == StripWww(parsed.hostname)
  IN  IF ~parsed.ok THEN DEFAULT_TTL
      ELSE IF TTL_BY_DOMAIN(hostname) # 0 THEN TTL_BY_DOMAIN(hostname)
      ELSE IF detectionMethod = "pattern" /\ PATTERN_RESULT_TTL # "null" THEN PATTERN_RESULT_TTL
      ELSE DEFAULT_TTL

\* The URLs the cache is called with: https://example.com/login,
\* https://www.example.com/login/?x=1 (the same key), http://localhost/ (a custom ttl)
CacheUrls ==
  { <<"https:", "/", "/", "example.com", "/", "login">>,
    <<"https:", "/", "/", "www.", "example.com", "/", "login", "/", "?x=1">>,
    <<"http:", "/", "/", "localhost", "/">> }

\* URLs with a key of their own each, for calls that fill the cache beyond its capacity.
LruUrls ==
  { <<"https:", "/", "/", "example.com", "/", "login">>,
    <<"https:", "/", "/", "example.com", "/", "signup">>,
    <<"https:", "/", "/", "example.com", "/", "account">>,
    <<"http:", "/", "/", "localhost", "/">> }

CacheKeys == {normalizeURL(u) : u \in CacheUrls \cup LruUrls}

\* DetectionResult values (part_001 1037-1044), without url, components and error.
DetectionResults ==
  { [success |-> TRUE, found |-> TRUE, detectionMethod |-> "ai"],
    [success |-> TRUE, found |-> FALSE, detectionMethod |-> "ai"],
    [success |-> TRUE, found |-> TRUE, detectionMethod |-> "pattern"],
    [success |-> FALSE, found |-> FALSE, detectionMethod |-> "none"] }

\* { ...result, cachedAt, expiresAt } (part_002 238-242).
WithMetadata(result, cachedAt, expiresAt) ==
  [success |-> result.success, found |-> result.found,
   detectionMethod |-> result.detectionMethod, cachedAt |-> cachedAt, expiresAt |-> expiresAt]

\* const { cachedAt, expiresAt, ...result } = cached (part_002 185-186).
WithoutMetadata(cached) ==
  [success |-> cached.success, found |-> cached.found,
   detectionMethod |-> cached.detectionMethod]

NoSet == [valid |-> FALSE, at |-> 0, ttl |-> 0,
          result |-> [success |-> FALSE, found |-> FALSE, detectionMethod |-> "none"]]

NoOp == [op |-> "none", ret |-> <<>>, evicted |-> {}]

\* The constructor (part_002 82-98) and the configuration of this build (36, 39).
CacheInit ==
  /\ cache = <<>>
  /\ stats = [hits |-> 0, misses |-> 0]
  /\ clock = 0
  /\ ticks = 0
  /\ MAX_SIZE = MaxSize
  /\ CACHE_EMPTY_RESULTS \in BOOLEAN
  /\ CACHE_PATTERN_RESULTS \in BOOLEAN
  /\ setLog = [k \in CacheKeys |-> NoSet]
  /\ lastOp = NoOp

\* The cache variables as shipped, before any call.
CacheRest ==
  /\ cache = <<>>
  /\ stats = [hits |-> 0, misses |-> 0]
  /\ clock = 0
  /\ ticks = 0
  /\ MAX_SIZE = MaxSize
  /\ CACHE_EMPTY_RESULTS = TRUE
  /\ CACHE_PATTERN_RESULTS = TRUE
  /\ setLog = [k \in CacheKeys |-> NoSet]
  /\ lastOp = NoOp

\* ---- lru-cache, as configured at part_002 83-92 ----
\* Position of `key` in the cache, 0 if absent.
IndexOf(key) ==
  IF \E i \in 1..Len(cache) : cache[i].key = key
  THEN CHOOSE i \in 1..Len(cache) : cache[i].key = key
  ELSE 0

\* An entry is stale once its age exceeds its ttl.
IsStale(e) == e.ttl # 0 /\ clock - e.start > e.ttl

Without(i) == SubSeq(cache, 1, i - 1) \o SubSeq(cache, i + 1, Len(cache))

\* LRUCache.get that hands the entry out where it stands in the order of use.
LruAfterGet_NoMove(key) ==
  LET i == IndexOf(key)
  IN  IF i = 0 THEN cache
      ELSE IF IsStale(cache[i]) THEN Without(i)
      ELSE [cache EXCEPT ![i].start = clock]

\* LRUCache.get with updateAgeOnGet: true, allowStale: false: a stale entry is deleted
\* and undefined returned; a live entry becomes the most recently used one and its age
\* restarts.
LruGetHit(key) == IndexOf(key) # 0 /\ ~IsStale(cache[IndexOf(key)])

LruAfterGet(key) ==
  LET i == IndexOf(key)
  IN  IF i = 0 THEN cache
      ELSE IF IsStale(cache[i]) THEN Without(i)
      ELSE Without(i) \o <<[cache[i] EXCEPT !.start = clock]>>

\* LRUCache.has: TRUE for a live entry; nothing is deleted, moved or refreshed.
LruHas(key) == IndexOf(key) # 0 /\ ~IsStale(cache[IndexOf(key)])

\* LRUCache.set(key, value, { ttl }): an existing entry is replaced; a new one evicts the
\* least recently used entry when the cache is full.  Either way the entry becomes the
\* most recently used one.
LruEvicted(key) ==
  IF IndexOf(key) = 0 /\ Len(cache) = MAX_SIZE THEN {cache[1].key} ELSE {}

LruAfterSet(key, value, ttl) ==
  LET i == IndexOf(key)
      e == [key |-> key, value |-> value, start |-> clock, ttl |-> ttl]
  IN  IF i # 0 THEN Without(i) \o <<e>>
      ELSE IF Len(cache) = MAX_SIZE THEN Tail(cache) \o <<e>>
      ELSE cache \o <<e>>

\* normalizeURL and getTTL on the URLs the cache is called with, computed once.
KeyOf == [u \in CacheUrls \cup LruUrls |-> normalizeURL(u)]

TtlOf == [u \in CacheUrls \cup LruUrls |-> [m \in {"ai", "pattern", "hybrid", "none"} |-> getTTL(u, m)]]

\* ---- DetectionCache methods ----
\* The three early returns of set (part_002 210-232): TRUE = the result is stored.
Cacheable_Always(result) == TRUE

Cacheable(result) ==
  /\ result.success
  /\ result.found \/ CACHE_EMPTY_RESULTS
  /\ result.detectionMethod # "pattern" \/ CACHE_PATTERN_RESULTS

\* The key get looks up (part_002 168).
LookupKey_Raw(url) == url

LookupKey(url) == KeyOf[url]

\* get (part_002 167-198).
get(url) ==
  /\ LET cacheKey == LookupKey(url)
         hit == LruGetHit(cacheKey)
     IN  /\ cache' = LruAfterGet(cacheKey)
         /\ stats' = IF hit THEN [stats EXCEPT !.hits = @ + 1]
                            ELSE [stats EXCEPT !.misses = @ + 1]
         /\ lastOp' = [op |-> "get",
                       ret |-> IF hit THEN <<WithoutMetadata(cache[IndexOf(cacheKey)].value)>>
                                      ELSE <<>>,
                       evicted |-> {}]
  /\ UNCHANGED <<clock, ticks, MAX_SIZE, CACHE_EMPTY_RESULTS, CACHE_PATTERN_RESULTS, setLog>>

\* set (part_002 208-256).
set(url, result) ==
  /\ IF ~Cacheable(result)
     THEN /\ lastOp' = [op |-> "set", ret |-> <<"skipped">>, evicted |-> {}]
          /\ UNCHANGED <<cache, setLog>>
     ELSE LET cacheKey == KeyOf[url]
              ttl == TtlOf[url][result.detectionMethod]
              cachedResult == WithMetadata(result, clock, clock + ttl)
          IN  /\ cache' = LruAfterSet(cacheKey, cachedResult, ttl)
              /\ setLog' = [k \in CacheKeys |->
                              IF k = cacheKey
                              THEN [valid |-> TRUE, at |-> clock, ttl |-> ttl,
                                    result |-> result]
                              ELSE IF k \in LruEvicted(cacheKey) THEN NoSet
                              ELSE setLog[k]]
              /\ lastOp' = [op |-> "set", ret |-> <<"stored">>,
                            evicted |-> LruEvicted(cacheKey)]
  /\ UNCHANGED <<stats, clock, ticks, MAX_SIZE, CACHE_EMPTY_RESULTS, CACHE_PATTERN_RESULTS>>

\* has (part_002 261-264).
has(url) ==
  /\ lastOp' = [op |-> "has", ret |-> <<LruHas(KeyOf[url])>>, evicted |-> {}]
  /\ UNCHANGED <<cache, stats, clock, ticks, MAX_SIZE, CACHE_EMPTY_RESULTS, CACHE_PATTERN_RESULTS, setLog>>

\* delete (part_002 269-280).
delete(url) ==
  /\ LET cacheKey == KeyOf[url]
         i == IndexOf(cacheKey)
     IN  /\ cache' = IF i # 0 THEN Without(i) ELSE cache
         /\ setLog' = [setLog EXCEPT ![cacheKey] = NoSet]
         /\ lastOp' = [op |-> "delete", ret |-> <<i # 0>>, evicted |-> {}]
  /\ UNCHANGED <<stats, clock, ticks, MAX_SIZE, CACHE_EMPTY_RESULTS, CACHE_PATTERN_RESULTS>>

\* clear (part_002 285-294).
clear ==
  /\ cache' = <<>>
  /\ stats' = [hits |-> 0, misses |-> 0]
  /\ setLog' = [k \in CacheKeys |-> NoSet]
  /\ lastOp' = [op |-> "clear", ret |-> <<>>, evicted |-> {}]
  /\ UNCHANGED <<clock, ticks, MAX_SIZE, CACHE_EMPTY_RESULTS, CACHE_PATTERN_RESULTS>>

\* ---- calls made on the cache ----
CacheGet(url) ==
  /\ stats.hits + stats.misses < MaxLookups
  /\ get(url)
  /\ UNCHANGED nonCacheVars

CacheSet(url, result) ==
  /\ set(url, result)
  /\ UNCHANGED nonCacheVars

CacheHas(url) ==
  /\ has(url)
  /\ UNCHANGED nonCacheVars

CacheDelete(url) ==
  /\ delete(url)
  /\ UNCHANGED nonCacheVars

CacheClear ==
  /\ clear
  /\ UNCHANGED nonCacheVars

\* ---- DELETE /api/detect (route.ts 214-241) ----
\* searchParams.get('url') (route.ts 217): null without the parameter, otherwise its
\* value, which is the empty string for "?url=".
DeleteParams ==
  {[present |-> FALSE, url |-> <<>>], [present |-> TRUE, url |-> <<>>]}
    \cup {[present |-> TRUE, url |-> u] : u \in CacheUrls}

\* if (url) (route.ts 219): null and the empty string are falsy.
UrlGiven(param) == param.present /\ param.url # <<>>

\* The body of the response (route.ts 222-227, 233-237).
DeleteResponse(param) ==
  IF UrlGiven(param)
  THEN [success |-> TRUE, action |-> "invalidate", deleted |-> IndexOf(KeyOf[param.url]) # 0]
  ELSE [success |-> TRUE, action |-> "clear", deleted |-> FALSE]

DeleteRoute(param) ==
  /\ IF UrlGiven(param) THEN delete(param.url) ELSE clear
  /\ UNCHANGED nonCacheVars

\* Time passes between two calls: the ttl of a local host (five minutes) or the default
\* ttl (a day).
TickSteps == {TTL_BY_DOMAIN(<<"localhost">>), DEFAULT_TTL}

CacheTick(d) ==
  /\ ticks < MaxTicks
  /\ ticks' = ticks + 1
  /\ clock' = clock + d
  /\ UNCHANGED <<cache, stats, MAX_SIZE, CACHE_EMPTY_RESULTS, CACHE_PATTERN_RESULTS, setLog, lastOp>>
  /\ UNCHANGED nonCacheVars

CacheNext ==
  \/ \E u \in CacheUrls : CacheGet(u)
  \/ \E u \in CacheUrls, r \in DetectionResults : CacheSet(u, r)
  \/ \E u \in CacheUrls : CacheHas(u)
  \/ \E u \in CacheUrls : CacheDelete(u)
  \/ CacheClear
  \/ \E param \in DeleteParams : DeleteRoute(param)
  \/ \E d \in TickSteps : CacheTick(d)

\* The cache with room for MaxSizeLru entries, called with more keys than it can hold.
LruInit ==
  /\ cache = <<>>
  /\ stats = [hits |-> 0, misses |-> 0]
  /\ clock = 0
  /\ ticks = 0
  /\ MAX_SIZE = MaxSizeLru
  /\ CACHE_EMPTY_RESULTS = TRUE
  /\ CACHE_PATTERN_RESULTS = TRUE
  /\ setLog = [k \in CacheKeys |-> NoSet]
  /\ lastOp = NoOp

\* The results stored there: one that is cached and one that set skips.
LruResults ==
  { [success |-> TRUE, found |-> TRUE, detectionMethod |-> "ai"],
    [success |-> FALSE, found |-> FALSE, detectionMethod |-> "none"] }

LruNext ==
  \/ \E u \in LruUrls : CacheGet(u)
  \/ \E u \in LruUrls, r \in LruResults : CacheSet(u, r)
  \/ \E u \in LruUrls : CacheHas(u)
  \/ \E u \in LruUrls : CacheDelete(u)
  \/ CacheClear
  \/ \E d \in TickSteps : CacheTick(d)

(***************************************************************************)
(* POST /api/detect requests: the handler, scrapeWebsite, performScrape    *)
(***************************************************************************)
Requests == 1..MaxRequests

NoResult == [success |-> FALSE, html |-> "", page |-> FALSE, context |-> FALSE,
             screenshot |-> FALSE, returned |-> FALSE]

\* A response: its status and what its JSON body holds: `success` and `cached` ("absent"
\* when the body has no such field), whether it has an `error` field, and whether it has
\* the fields of a detection (found, components, detectionMethod, ...).
NoResponse == [status |-> 0, success |-> "absent", error |-> FALSE, payload |-> FALSE,
               cached |-> "absent"]

\* { error: 'URL is required' }, status 400 (route.ts 49).
UrlRequired == [status |-> 400, success |-> "absent", error |-> TRUE, payload |-> FALSE,
                cached |-> "absent"]

\* { success: false, error }, status 500 (route.ts 83-86, 165-171).
ServerError == [status |-> 500, success |-> "false", error |-> TRUE, payload |-> FALSE,
                cached |-> "absent"]

\* { ...result, cached } with status 200 (route.ts 70-73, 128-133).
DetectionResponse(result, isCached) ==
  [status |-> 200, success |-> IF result.success THEN "true" ELSE "false", error |-> FALSE,
   payload |-> TRUE, cached |-> IF isCached THEN "true" ELSE "false"]

NoUrl == <<>>

\* What request.json() gives (route.ts 43): a rejection (parsed = FALSE), a body without
\* url, or a body with a url.
Bodies ==
  {[parsed |-> FALSE, url |-> NoUrl], [parsed |-> TRUE, url |-> NoUrl]}
    \cup {[parsed |-> TRUE, url |-> u] : u \in CacheUrls}

\* What detectAuthentication returns (part_001 235-241, 864-870): success is always true.
RouteDetections == {d \in DetectionResults : d.success}

\* The suspension points of performScrape, in order (scraper.ts 164-174).
Stages == <<"createContext", "newPage", "navigate", "waitReady", "extract">>

StageIndex(st) == CHOOSE i \in 1..Len(Stages) : Stages[i] = st

PendingStages == {Stages[i] : i \in 1..Len(Stages)} \cup {"cleanupPage", "cleanupContext"}

ReqInit ==
  /\ rpc = [r \in Requests |-> "idle"]
  /\ spc = [r \in Requests |-> "none"]
  /\ raceSettled = [r \in Requests |-> FALSE]
  /\ scrapeResult = [r \in Requests |-> NoResult]
  /\ page = [r \in Requests |-> "none"]
  /\ context = [r \in Requests |-> "none"]
  /\ routePageCloses = [r \in Requests |-> 0]
  /\ routeCtxCloses = [r \in Requests |-> 0]
  /\ response = [r \in Requests |-> NoResponse]
  /\ reqUrl = [r \in Requests |-> NoUrl]

\* The failure outcome built at scraper.ts 138-142 and 187-191.
FailureResult == [success |-> FALSE, html |-> "", page |-> FALSE, context |-> FALSE,
                  screenshot |-> FALSE, returned |-> TRUE]

\* A scrape that counts as failed when it has no screenshot.
SuccessResult_ScreenshotRequired(h, shot) ==
  [success |-> shot, html |-> IF shot THEN h ELSE "", page |-> shot, context |-> shot,
   screenshot |-> shot, returned |-> TRUE]

\* buildSuccessResult (scraper.ts 337-359): the live page and context go to the caller.
SuccessResult(h, shot) == [success |-> TRUE, html |-> h, page |-> TRUE, context |-> TRUE,
                           screenshot |-> shot, returned |-> TRUE]

\* The handler's test of the scrape outcome (route.ts 82): TRUE = take the early 500 return.
ScrapeUnusable_Never(res) == FALSE

ScrapeUnusable(res) == ~res.success \/ res.html = "" \/ ~res.page

\* scrapeWebsite hands `res` to the POST handler of request r, which runs on to its next
\* suspension (route.ts 80-106): the early 500 return, or the call of detectAuthentication.
ReturnToHandler(r, res) ==
  /\ raceSettled' = [raceSettled EXCEPT ![r] = TRUE]
  /\ scrapeResult' = [scrapeResult EXCEPT ![r] = res]
  /\ IF ScrapeUnusable(res)
     THEN /\ rpc' = [rpc EXCEPT ![r] = "responded"]
          /\ response' = [response EXCEPT ![r] = ServerError]
     ELSE /\ rpc' = [rpc EXCEPT ![r] = "detect"]
          /\ UNCHANGED response

\* The values of scrapeWebsite's own `page` and `context` when its catch block runs
\* (scraper.ts 110-111): they are assigned only after the race resolved (126-127).
ScrapeWebsiteLocals == [page |-> FALSE, context |-> FALSE]

\* cleanupResources(page, context) (scraper.ts 397-421) called with the handles `locals`:
\* the state of request r's page and context after it.
PageAfterCleanup(r, locals) ==
  IF locals.page /\ page[r] = "open" THEN "closed" ELSE page[r]

ContextAfterCleanup(r, locals) ==
  IF locals.context /\ context[r] = "open" THEN "closed" ELSE context[r]

\* if (cachedResult) (route.ts 60).
CacheHit_Never(ret) == FALSE

CacheHit(ret) == ret # <<>>

\* POST: request.json(), the URL check, the cache lookup, then scrapeWebsite ->
\* performScrape up to `await browserPool.createContext()` (route.ts 38-80, scraper.ts
\* 108-164).  A rejection of request.json() goes to the outer catch (162-174).
Post(r, body) ==
  /\ rpc[r] = "idle"
  /\ IF body.parsed /\ body.url # NoUrl
     THEN /\ get(body.url)
          /\ reqUrl' = [reqUrl EXCEPT ![r] = body.url]
          /\ IF CacheHit(lastOp'.ret)
             THEN /\ rpc' = [rpc EXCEPT ![r] = "responded"]
                  /\ response' = [response EXCEPT ![r] =
                                    DetectionResponse(lastOp'.ret[1], TRUE)]
                  /\ UNCHANGED spc
             ELSE /\ rpc' = [rpc EXCEPT ![r] = "scrape"]
                  /\ spc' = [spc EXCEPT ![r] = "createContext"]
                  /\ UNCHANGED response
     ELSE /\ rpc' = [rpc EXCEPT ![r] = "responded"]
          /\ response' = [response EXCEPT ![r] =
                            IF body.parsed THEN UrlRequired ELSE ServerError]
          /\ UNCHANGED <<spc, reqUrl>>
          /\ UNCHANGED cacheVars
  /\ UNCHANGED <<raceSettled, scrapeResult, page, context, routePageCloses, routeCtxCloses>>
  /\ UNCHANGED nonRouteVars

\* One awaited step of performScrape before the extraction resolves (scraper.ts 164-168).
PerformStepOk(r, st) ==
  /\ spc[r] = st
  /\ st \in {"createContext", "newPage", "navigate", "waitReady"}
  /\ spc' = [spc EXCEPT ![r] = Stages[StageIndex(st) + 1]]
  /\ context' = [context EXCEPT ![r] = IF st = "createContext" THEN "open" ELSE @]
  /\ page' = [page EXCEPT ![r] = IF st = "newPage" THEN "open" ELSE @]
  /\ UNCHANGED <<rpc, raceSettled, scrapeResult, routePageCloses, routeCtxCloses, response, reqUrl>>
  /\ UNCHANGED nonReqVars

\* An awaited step of performScrape throws: its catch block starts cleanupResources
\* (scraper.ts 179-185).
PerformStepThrows(r, st) ==
  /\ spc[r] = st
  /\ st \in {"createContext", "newPage", "navigate", "waitReady", "extract"}
  /\ spc' = [spc EXCEPT ![r] = "cleanupPage"]
  /\ UNCHANGED <<rpc, raceSettled, scrapeResult, page, context, routePageCloses,
                 routeCtxCloses, response, reqUrl>>
  /\ UNCHANGED nonReqVars

\* The handles performScrape's catch block passes to cleanupResources (scraper.ts 160-165,
\* 185): its own `page` and `context`, assigned as soon as each was created.
PerformScrapeLocals(r) == [page |-> page[r] # "none", context |-> context[r] # "none"]

\* cleanupResources, first half: page.close() if a page was created (scraper.ts 402-410).
PerformCleanupPage(r) ==
  /\ spc[r] = "cleanupPage"
  /\ spc' = [spc EXCEPT ![r] = "cleanupContext"]
  /\ page' = [page EXCEPT ![r] = PageAfterCleanup(r, PerformScrapeLocals(r))]
  /\ UNCHANGED <<rpc, raceSettled, scrapeResult, context, routePageCloses, routeCtxCloses,
                 response, reqUrl>>
  /\ UNCHANGED nonReqVars

\* cleanupResources, second half, and performScrape's failure return (scraper.ts 412-420,
\* 187-191); if the race is still open scrapeWebsite returns that outcome.
PerformCleanupContext(r) ==
  /\ spc[r] = "cleanupContext"
  /\ spc' = [spc EXCEPT ![r] = "failed"]
  /\ context' = [context EXCEPT ![r] = ContextAfterCleanup(r, PerformScrapeLocals(r))]
  /\ IF raceSettled[r]
     THEN UNCHANGED <<rpc, raceSettled, scrapeResult, response>>
     ELSE ReturnToHandler(r, FailureResult)
  /\ UNCHANGED <<page, routePageCloses, routeCtxCloses, reqUrl>>
  /\ UNCHANGED nonReqVars

\* Promise.all([extractAllContent, captureScreenshot]) resolves and performScrape returns
\* the success outcome (scraper.ts 171-178); if the race is still open scrapeWebsite
\* returns it (126-129).  h is the combined html, shot whether a screenshot was taken.
PerformExtractOk(r, h, shot) ==
  /\ spc[r] = "extract"
  /\ spc' = [spc EXCEPT ![r] = "ok"]
  /\ IF raceSettled[r]
     THEN UNCHANGED <<rpc, raceSettled, scrapeResult, response>>
     ELSE ReturnToHandler(r, SuccessResult(h, shot))
  /\ UNCHANGED <<page, context, routePageCloses, routeCtxCloses, reqUrl>>
  /\ UNCHANGED nonReqVars

\* The 60 s timer of executeWithTimeout wins the race (scraper.ts 120-124, 432-444):
\* scrapeWebsite's catch block runs cleanupResources on its own locals and returns a
\* failure (130-143); performScrape is not cancelled.
ScrapeTimeout(r) ==
  /\ rpc[r] = "scrape"
  /\ ~raceSettled[r]
  /\ spc[r] \in PendingStages
  /\ page' = [page EXCEPT ![r] = PageAfterCleanup(r, ScrapeWebsiteLocals)]
  /\ context' = [context EXCEPT ![r] = ContextAfterCleanup(r, ScrapeWebsiteLocals)]
  /\ ReturnToHandler(r, FailureResult)
  /\ UNCHANGED <<spc, routePageCloses, routeCtxCloses, reqUrl>>
  /\ UNCHANGED nonReqVars

\* detectAuthentication throws, to the outer catch by way of the finally block (route.ts
\* 100-106, 136-139, 162-174); the finally block starts with `await
\* scrapeResult.page.close()`.
DetectThrows(r) ==
  /\ rpc[r] = "detect"
  /\ response' = [response EXCEPT ![r] = ServerError]
  /\ IF scrapeResult[r].page
     THEN /\ rpc' = [rpc EXCEPT ![r] = "closePage"]
          /\ routePageCloses' = [routePageCloses EXCEPT ![r] = @ + 1]
     ELSE /\ rpc' = [rpc EXCEPT ![r] = "closeCtx"]
          /\ UNCHANGED routePageCloses
  /\ UNCHANGED <<spc, raceSettled, scrapeResult, page, context, routeCtxCloses, reqUrl>>
  /\ UNCHANGED nonReqVars

\* detectAuthentication returns `result`: it is handed to detectionCache.set and the
\* response is built (route.ts 100-135); then the finally block, as above.
DetectSettle(r, result) ==
  /\ rpc[r] = "detect"
  /\ set(reqUrl[r], result)
  /\ response' = [response EXCEPT ![r] = DetectionResponse(result, FALSE)]
  /\ IF scrapeResult[r].page
     THEN /\ rpc' = [rpc EXCEPT ![r] = "closePage"]
          /\ routePageCloses' = [routePageCloses EXCEPT ![r] = @ + 1]
     ELSE /\ rpc' = [rpc EXCEPT ![r] = "closeCtx"]
          /\ UNCHANGED routePageCloses
  /\ UNCHANGED <<spc, raceSettled, scrapeResult, page, context, routeCtxCloses, reqUrl>>
  /\ UNCHANGED nonRouteVars

\* page.close() settles, resolved or rejected (the rejection is caught, route.ts 143-155);
\* then `await browserPool.closeContext(scrapeResult.context)` (158-160).
PageCloseSettle(r, threw) ==
  /\ rpc[r] = "closePage"
  /\ page' = [page EXCEPT ![r] = IF threw THEN @ ELSE "closed"]
  /\ IF scrapeResult[r].context
     THEN /\ rpc' = [rpc EXCEPT ![r] = "closeCtx"]
          /\ routeCtxCloses' = [routeCtxCloses EXCEPT ![r] = @ + 1]
     ELSE /\ rpc' = [rpc EXCEPT ![r] = "responded"]
          /\ UNCHANGED routeCtxCloses
  /\ UNCHANGED <<spc, raceSettled, scrapeResult, context, routePageCloses, response,
                 reqUrl>>
  /\ UNCHANGED nonReqVars

\* closeContext settles (scraper.ts 651-662): closing the context closes its pages too;
\* the handler returns its response.
ContextCloseSettle(r) ==
  /\ rpc[r] = "closeCtx"
  /\ context' = [context EXCEPT ![r] = "closed"]
  /\ page' = [page EXCEPT ![r] = IF @ = "open" THEN "closed" ELSE @]
  /\ rpc' = [rpc EXCEPT ![r] = "responded"]
  /\ UNCHANGED <<spc, raceSettled, scrapeResult, routePageCloses, routeCtxCloses, response, reqUrl>>
  /\ UNCHANGED nonReqVars

ReqNext ==
  \/ \E r \in Requests, body \in Bodies : Post(r, body)
  \/ \E r \in Requests, st \in {"createContext", "newPage", "navigate", "waitReady"} :
        PerformStepOk(r, st)
  \/ \E r \in Requests, st \in {"createContext", "newPage", "navigate", "waitReady", "extract"} :
        PerformStepThrows(r, st)
  \/ \E r \in Requests : PerformCleanupPage(r)
  \/ \E r \in Requests : PerformCleanupContext(r)
  \/ \E r \in Requests, h \in {"", "html"}, shot \in BOOLEAN : PerformExtractOk(r, h, shot)
  \/ \E r \in Requests : ScrapeTimeout(r)
  \/ \E r \in Requests : DetectThrows(r)
  \/ \E r \in Requests, d \in RouteDetections : DetectSettle(r, d)
  \/ CacheTick(DEFAULT_TTL)
  \/ \E r \in Requests, t \in BOOLEAN : PageCloseSettle(r, t)
  \/ \E r \in Requests : ContextCloseSettle(r)

(***************************************************************************)
(* detectAuthentication (part_001 108-153) with its AI path (170-242,      *)
(* 435-577) and its pattern path (828-949)                                 *)
(***************************************************************************)
\* What the model's JSON says about one component, by what extractComponentSnippet
\* (part_001 518-577) does with it:
\*   "selectorHit"  details.playwrightSelector matches an element of the page
\*   "selectorMiss" the selector matches nothing (or times out): the fallback runs
\*   "noSelector"   details has no playwrightSelector
\*   "noDetails"    the component has no details object: line 523 throws a TypeError
ComponentKinds == {"selectorHit", "selectorMiss", "noSelector", "noDetails"}

ComponentLists == UNION {[1..n -> ComponentKinds] : n \in 0..MaxComponents}

NoAiResponse == [found |-> FALSE, components |-> <<>>]

NoDetection == [success |-> FALSE, found |-> FALSE, components |-> <<>>,
                detectionMethod |-> "none"]

\* The awaited operation that never settles, if any: model.generateContent ("aiCall"),
\* the locator calls of extractComponentSnippet on the AI path ("extract"), or the
\* locator calls of extractWithSelector on the pattern path ("pattern").
HangPoints == {"none", "aiCall", "extract", "pattern"}

DetectInit ==
  /\ apiKey \in BOOLEAN
  /\ dom \in [form : BOOLEAN, oauth : BOOLEAN]
  /\ hung \in HangPoints
  /\ dpc = "start"
  /\ aiResponse = NoAiResponse
  /\ aiFailed = "no"
  /\ patternRan = FALSE
  /\ detectThrew = FALSE
  /\ detectResult = NoDetection

\* The detection variables when no detection is running.
DetectRest ==
  /\ apiKey = FALSE
  /\ dom = [form |-> FALSE, oauth |-> FALSE]
  /\ hung = "none"
  /\ dpc = "start"
  /\ aiResponse = NoAiResponse
  /\ aiFailed = "no"
  /\ patternRan = FALSE
  /\ detectThrew = FALSE
  /\ detectResult = NoDetection

\* The catch block of detectAuthentication (part_001 135-141): the error is logged and
\* control falls through to detectWithPatterns.
CatchAiError_Rethrow(reason) == [dpc |-> "done", threw |-> TRUE]

CatchAiError(reason) == [dpc |-> "pattern", threw |-> FALSE]

\* The AI path ends with the exception `reason`.
AiPathFails(reason) ==
  /\ aiFailed' = reason
  /\ dpc' = CatchAiError(reason).dpc
  /\ detectThrew' = CatchAiError(reason).threw

\* detectAuthentication up to its first await (part_001 108-125, 170-198): with a
\* credential the AI request is sent, without one the pattern path starts.
FirstStep_AlwaysAi(hasKey) == "aiCall"

\* `if (apiKey)` (part_001 123): the AI path is entered only with a credential.
FirstStep(hasKey) == IF hasKey THEN "aiCall" ELSE "pattern"

DetectStart ==
  /\ dpc = "start"
  /\ dpc' = FirstStep(apiKey)
  /\ UNCHANGED <<apiKey, dom, hung, aiResponse, aiFailed, patternRan, detectThrew, detectResult>>
  /\ UNCHANGED nonDetectVars

\* executeWithTimeout rejects: the 60 s timer fired ("timeout") or generateContent
\* rejected ("transport") (part_001 194-198).
AiCallFails(reason) ==
  /\ dpc = "aiCall"
  /\ reason \in {"timeout", "transport"}
  /\ reason = "transport" => hung # "aiCall"
  /\ AiPathFails(reason)
  /\ UNCHANGED <<apiKey, dom, hung, aiResponse, patternRan, detectResult>>
  /\ UNCHANGED nonDetectVars

\* The AI answered with a text parseAIResponse rejects (part_001 440-443, 462-466):
\* no {...} in it ("noJson"), or JSON.parse fails ("badJson").
AiAnswerUnparseable(reason) ==
  /\ dpc = "aiCall"
  /\ hung # "aiCall"
  /\ reason \in {"noJson", "badJson"}
  /\ AiPathFails(reason)
  /\ UNCHANGED <<apiKey, dom, hung, aiResponse, patternRan, detectResult>>
  /\ UNCHANGED nonDetectVars

\* The AI answered with JSON (part_001 204-224, 478-489, 518-523): parseAIResponse
\* returns it and extractSnippetsWithTimeout starts one extractComponentSnippet per
\* component; one that throws rejects Promise.all, the race and detectWithAI at once.
AiAnswerParsed(found, components) ==
  /\ dpc = "aiCall"
  /\ hung # "aiCall"
  /\ aiResponse' = [found |-> found, components |-> components]
  /\ IF \E i \in 1..Len(components) : components[i] = "noDetails"
     THEN AiPathFails("extraction")
     ELSE /\ dpc' = "extract"
          /\ UNCHANGED <<aiFailed, detectThrew>>
  /\ UNCHANGED <<apiKey, dom, hung, patternRan, detectResult>>
  /\ UNCHANGED nonDetectVars

\* The snippet extractComponentSnippet returns for a component (part_001 525-576).
SnippetOf(kind) ==
  CASE kind = "selectorHit" -> "html"
    [] kind = "selectorMiss" -> "fallback"
    [] kind = "noSelector" -> "no selector provided"
    [] OTHER -> "extraction failed"

\* The race of extractSnippetsWithTimeout settles (part_001 485-512): with the extracted
\* snippets, or after 20 s with placeholders; detectWithAI returns (226-241).
ExtractSettle(timedOut) ==
  /\ dpc = "extract"
  /\ ~timedOut => hung # "extract"
  /\ dpc' = "done"
  /\ detectResult' =
       [success |-> TRUE, found |-> aiResponse.found,
        components |-> [i \in 1..Len(aiResponse.components) |->
                          IF timedOut THEN "extraction timed out"
                          ELSE SnippetOf(aiResponse.components[i])],
        detectionMethod |-> "ai"]
  /\ UNCHANGED <<apiKey, dom, hung, aiResponse, aiFailed, patternRan, detectThrew>>
  /\ UNCHANGED nonDetectVars

\* The two components pushed in the other order.
PatternComponents_OauthFirst ==
  (IF dom.oauth THEN <<"oauth">> ELSE <<>>) \o (IF dom.form THEN <<"traditional">> ELSE <<>>)

\* detectWithPatterns (part_001 828-871): extractWithSelector catches every error, so
\* the two probes yield a component or null and the result is returned once they have
\* settled.  Promise.all (841-844) is awaited as it is: waitFor has a timeout of its own
\* (590-594), element.count() and element.evaluate() (599-604) have none, and no timer
\* is raced against them.
PatternComponents ==
  (IF dom.form THEN <<"traditional">> ELSE <<>>) \o (IF dom.oauth THEN <<"oauth">> ELSE <<>>)

PatternSettle ==
  /\ dpc = "pattern"
  /\ hung # "pattern"
  /\ dpc' = "done"
  /\ patternRan' = TRUE
  /\ detectResult' = [success |-> TRUE, found |-> Len(PatternComponents) > 0,
                      components |-> PatternComponents, detectionMethod |-> "pattern"]
  /\ UNCHANGED <<apiKey, dom, hung, aiResponse, aiFailed, detectThrew>>
  /\ UNCHANGED nonDetectVars

DetectNext ==
  \/ DetectStart
  \/ \E reason \in {"timeout", "transport"} : AiCallFails(reason)
  \/ \E reason \in {"noJson", "badJson"} : AiAnswerUnparseable(reason)
  \/ \E found \in BOOLEAN, components \in ComponentLists : AiAnswerParsed(found, components)
  \/ \E timedOut \in BOOLEAN : ExtractSettle(timedOut)
  \/ PatternSettle

(***************************************************************************)
(* truncateSnippet (part_001 976-1017)                                     *)
(*                                                                         *)
(* An HTML text is a sequence of characters.  The element names used are   *)
(* "d" (an element with content, like div or form), "i" (a void element,   *)
(* like input) and "b" (written self-closing, like <br/>).                 *)
(***************************************************************************)
WordChars == {"d", "i", "b", "a", "x"}

VoidNames == {<<"i">>}

RECURSIVE Flatten(_)
Flatten(ss) == IF ss = <<>> THEN <<>> ELSE Head(ss) \o Flatten(Tail(ss))

\* The pieces an input is put together from: <d>, </d>, <i>, <b/>, the text xxx, and a
\* single tag <d aaa...> that is longer than the cap.
Pieces ==
  { <<"<", "d", ">">>, <<"<", "/", "d", ">">>, <<"<", "i", ">">>, <<"<", "b", "/", ">">>,
    <<"x", "x", "x">>, <<"<", "d", " ">> \o Repeat("a", MAX_SNIPPET) \o <<">">> }

SnippetInputs == {Flatten(ps) : ps \in UNION {[1..n -> Pieces] : n \in 0..MaxPieces}}

\* String.prototype.lastIndexOf, counting from 1; 0 when c does not occur.
LastIndexOf(s, c) ==
  IF \E i \in 1..Len(s) : s[i] = c
  THEN CHOOSE i \in 1..Len(s) : s[i] = c /\ \A j \in (i + 1)..Len(s) : s[j] # c
  ELSE 0

\* String.prototype.indexOf from position `from`, counting from 1; 0 when absent.
IndexFrom(s, c, from) ==
  IF \E i \in from..Len(s) : s[i] = c
  THEN CHOOSE i \in from..Len(s) : s[i] = c /\ \A j \in from..(i - 1) : s[j] # c
  ELSE 0

\* One match of /<(\/?)([\w-]+)[^>]*>/ starting at position pos (part_001 991).
MatchTagAt(s, pos) ==
  LET isClosing == pos + 1 <= Len(s) /\ s[pos + 1] = "/"
      nameStart == IF isClosing THEN pos + 2 ELSE pos + 1
      tagName == TakeWhile(DropN(s, nameStart - 1), WordChars \cup {"-"})
      gt == IndexFrom(s, ">", nameStart + Len(tagName))
  IN  IF s[pos] # "<" \/ tagName = <<>> \/ gt = 0
      THEN [ok |-> FALSE, isClosing |-> FALSE, tagName |-> <<>>, last |-> pos,
            selfClosing |-> FALSE]
      ELSE [ok |-> TRUE, isClosing |-> isClosing, tagName |-> tagName, last |-> gt,
            selfClosing |-> s[gt - 1] = "/"]

\* The while loop over tagRegex.exec (part_001 994-1007): the stack of open tags left
\* after scanning s from pos.
RECURSIVE OpenTags(_, _, _)
OpenTags(s, pos, openTags) ==
  IF pos > Len(s) THEN openTags
  ELSE LET m == MatchTagAt(s, pos)
       IN  IF ~m.ok THEN OpenTags(s, pos + 1, openTags)
           ELSE IF m.isClosing
           THEN OpenTags(s, m.last + 1,
                         IF openTags # <<>> /\ openTags[Len(openTags)] = m.tagName
                         THEN SubSeq(openTags, 1, Len(openTags) - 1) ELSE openTags)
           ELSE IF ~m.selfClosing THEN OpenTags(s, m.last + 1, Append(openTags, m.tagName))
           ELSE OpenTags(s, m.last + 1, openTags)

\* The closing tags appended, innermost first (part_001 1009-1014).
RECURSIVE ClosingTags(_)
ClosingTags(openTags) ==
  IF openTags = <<>> THEN <<>>
  ELSE <<"<", "/">> \o openTags[Len(openTags)] \o <<">">>
       \o ClosingTags(SubSeq(openTags, 1, Len(openTags) - 1))

\* truncateSnippet (part_001 976-1017).
truncateSnippet(snippet) ==
  IF Len(snippet) <= MAX_SNIPPET THEN snippet
  ELSE LET sliced == SubSeq(snippet, 1, MAX_SNIPPET)
           lastOpenTag == LastIndexOf(sliced, "<")
           lastCloseTag == LastIndexOf(sliced, ">")
           truncated == IF lastOpenTag > lastCloseTag
                        THEN SubSeq(sliced, 1, lastOpenTag - 1) ELSE sliced
       IN  truncated \o ClosingTags(OpenTags(truncated, 1, <<>>))

\* Whether the tags of s are balanced: every opened tag that is neither self-closing
\* nor named in voids is closed, in nesting order, and nothing else is closed.
RECURSIVE Balanced(_, _, _, _)
Balanced(s, pos, stack, voids) ==
  IF pos > Len(s) THEN stack = <<>>
  ELSE LET m == MatchTagAt(s, pos)
       IN  IF ~m.ok THEN Balanced(s, pos + 1, stack, voids)
           ELSE IF m.isClosing
           THEN /\ stack # <<>>
                /\ stack[Len(stack)] = m.tagName
                /\ Balanced(s, m.last + 1, SubSeq(stack, 1, Len(stack) - 1), voids)
           ELSE IF m.selfClosing \/ m.tagName \in voids
           THEN Balanced(s, m.last + 1, stack, voids)
           ELSE Balanced(s, m.last + 1, Append(stack, m.tagName), voids)

(***************************************************************************)
(* parseAIResponse (part_001 435-467)                                      *)
(*                                                                         *)
(* The AI's text is a sequence of tokens: the braces "{" and "}", "kv" (a  *)
(* member such as "found": true), "," (a comma), "c" (a comment written    *)
(* between slash-star and star-slash) and "w" (a word of prose).  A nested *)
(* object stands for a member whose value is an object.                    *)
(***************************************************************************)
Tokens == {"{", "}", "kv", ",", "c", "w"}

ResponseTexts == UNION {[1..n -> Tokens] : n \in 0..MaxTokens}

NotParsed == [kind |-> "(not yet)", value |-> <<>>]

\* responseText.match(/\{[\s\S]*\}/) (part_001 440): from the first "{" to the last
\* "}" of the text, <<>> when there is no match.
JsonMatch(text) ==
  LET first == IndexFrom(text, "{", 1)
      last == LastIndexOf(text, "}")
  IN  IF first = 0 \/ last < first THEN <<>> ELSE SubSeq(text, first, last)

\* .replace(/,(\s*[}\]])/g, '$1') (part_001 446): a comma right before a closing
\* brace goes.
RECURSIVE DropTrailingCommas(_)
DropTrailingCommas(t) ==
  IF t = <<>> THEN <<>>
  ELSE IF Len(t) >= 2 /\ t[1] = "," /\ t[2] = "}" THEN DropTrailingCommas(Tail(t))
  ELSE <<Head(t)>> \o DropTrailingCommas(Tail(t))

\* .replace(/\/\*[\s\S]*?\*\//g, '') (part_001 448): the comments go.
DropComments(t) == SelectSeq(t, LAMBDA x : x # "c")

\* cleanedJSON (part_001 445-448): the commas are dropped before the comments are.
CleanJSON(t) == DropComments(DropTrailingCommas(t))

\* Where the JSON object that starts at t[i] ends, 0 when no object starts there.
RECURSIVE ObjectEnd(_, _)
RECURSIVE MembersEnd(_, _)
ObjectEnd(t, i) ==
  IF i + 1 > Len(t) \/ t[i] # "{" THEN 0
  ELSE IF t[i + 1] = "}" THEN i + 1
  ELSE MembersEnd(t, i + 1)

\* Where the object ends whose members start at t[i], 0 when they are not members.
MembersEnd(t, i) ==
  LET e == IF i > Len(t) THEN 0
           ELSE IF t[i] = "kv" THEN i
           ELSE ObjectEnd(t, i)
  IN  IF e = 0 \/ e + 1 > Len(t) THEN 0
      ELSE IF t[e + 1] = "}" THEN e + 1
      ELSE IF t[e + 1] = "," THEN MembersEnd(t, e + 2)
      ELSE 0

\* JSON.parse(t) does not throw (part_001 451): t is one object and nothing else.
ParsesAsJSON(t) == t # <<>> /\ ObjectEnd(t, 1) = Len(t)

\* parseAIResponse (part_001 435-467): the object parsed, or the error thrown.
parseAIResponse(responseText) ==
  LET jsonMatch == JsonMatch(responseText)
      cleanedJSON == CleanJSON(jsonMatch)
  IN  IF jsonMatch = <<>> THEN [kind |-> "error", value |-> <<"No JSON found">>]
      ELSE IF ParsesAsJSON(cleanedJSON) THEN [kind |-> "parsed", value |-> cleanedJSON]
      ELSE [kind |-> "error", value |-> <<"Failed to parse">>]

ParseInit ==
  /\ paText \in ResponseTexts
  /\ paResult = NotParsed

\* The variables of the parser when it is not running.
ParseRest ==
  /\ paText = <<>>
  /\ paResult = NotParsed

ParseResponse ==
  /\ paResult = NotParsed
  /\ paResult' = parseAIResponse(paText)
  /\ UNCHANGED <<paText, truncIn, truncOut, backgroundVars, attachVars>>
  /\ UNCHANGED nonTruncVars

ParseNext == ParseResponse

(***************************************************************************)
(* The work that races a timer, and the page it works on                   *)
(*                                                                         *)
(* Three races of one request: "scrape" (performScrape against the 60 s    *)
(* timer of executeWithTimeout, scraper.ts 120-124, 432-444), "extraction" *)
(* (the Promise.all of extractComponentSnippet against the 20 s timer,     *)
(* part_001 487-503) and "strategy" (extractWithSelector against the timer *)
(* of attemptStrategyWithTimeout, part_001 778-781).  No race cancels the  *)
(* work that loses it.  The work of a race is "idle" before it starts,     *)
(* "running" while its caller awaits the race, "lost" once the timer won   *)
(* and "done" when it has ended.                                           *)
(***************************************************************************)
Races == {"scrape", "extraction", "strategy"}

\* The work of a race that has lost goes on as before.
StillIssues(state) == state \in {"running", "lost"}

BackgroundInit ==
  /\ bgHandler = "scrape"
  /\ bgPage = "open"
  /\ bgWork = [w \in Races |-> IF w = "scrape" THEN "running" ELSE "idle"]
  /\ bgLog = {}

\* The variables of the races when no request is running.
BackgroundRest ==
  /\ bgHandler = "idle"
  /\ bgPage = "open"
  /\ bgWork = [w \in Races |-> "idle"]
  /\ bgLog = {}

\* The work of race w issues an operation on the page: page.goto, page.content,
\* locator.waitFor, locator.count, locator.evaluate (scraper.ts 166-175, part_001
\* 588-603).
PageOperation(w) ==
  /\ StillIssues(bgWork[w])
  /\ bgLog' = bgLog \cup {[by |-> w, lost |-> bgWork[w] = "lost", page |-> bgPage]}
  /\ UNCHANGED <<bgHandler, bgPage, bgWork>>
  /\ UNCHANGED <<truncIn, truncOut, parseVars, attachVars>>
  /\ UNCHANGED nonTruncVars

\* The timer of race w fires first: its caller goes on with the timer's value
\* (scraper.ts 438-443, 130-143; part_001 491-503, 780).  The handler answers 500 when
\* the scrape timed out (route.ts 82-86); scrapeWebsite's cleanup has no page to close.
TimerWins(w) ==
  /\ bgWork[w] = "running"
  /\ bgWork' = [bgWork EXCEPT ![w] = "lost"]
  /\ bgHandler' = IF w = "scrape" THEN "responded" ELSE bgHandler
  /\ UNCHANGED <<bgPage, bgLog>>
  /\ UNCHANGED <<truncIn, truncOut, parseVars, attachVars>>
  /\ UNCHANGED nonTruncVars

\* performScrape ends (scraper.ts 155-193): with the page left open for the caller, or
\* in its catch block, which closes the page.  If the race is still open the handler
\* goes on to detectAuthentication, which starts the extraction (route.ts 100, part_001
\* 487-489), or answers 500.
ScrapeEnds(ok) ==
  /\ StillIssues(bgWork["scrape"])
  /\ bgWork' = [bgWork EXCEPT !["scrape"] = "done",
                              !["extraction"] =
                                 IF ok /\ bgWork["scrape"] = "running" THEN "running" ELSE @]
  /\ bgPage' = IF ok THEN bgPage ELSE "closed"
  /\ bgHandler' = IF bgWork["scrape"] = "lost" THEN bgHandler
                  ELSE IF ok THEN "detect" ELSE "responded"
  /\ UNCHANGED bgLog
  /\ UNCHANGED <<truncIn, truncOut, parseVars, attachVars>>
  /\ UNCHANGED nonTruncVars

\* The extraction reaches a fallback that calls attemptStrategyWithTimeout (part_001
\* 555, 673-678, 778-781).
StrategyStarts ==
  /\ StillIssues(bgWork["extraction"])
  /\ bgWork["strategy"] = "idle"
  /\ bgWork' = [bgWork EXCEPT !["strategy"] = "running"]
  /\ UNCHANGED <<bgHandler, bgPage, bgLog>>
  /\ UNCHANGED <<truncIn, truncOut, parseVars, attachVars>>
  /\ UNCHANGED nonTruncVars

\* extractWithSelector of the strategy, or the whole extraction, ends (part_001 582-611,
\* 487-489); the extraction awaits the race of its strategy.
WorkEnds(w) ==
  /\ StillIssues(bgWork[w])
  /\ w = "extraction" => bgWork["strategy"] # "running"
  /\ bgWork' = [bgWork EXCEPT ![w] = "done"]
  /\ UNCHANGED <<bgHandler, bgPage, bgLog>>
  /\ UNCHANGED <<truncIn, truncOut, parseVars, attachVars>>
  /\ UNCHANGED nonTruncVars

\* The race of the extraction has settled and detectAuthentication returns; the
\* handler's finally block calls page.close() (route.ts 100-139).
DetectionReturns ==
  /\ bgHandler = "detect"
  /\ bgWork["extraction"] \in {"lost", "done"}
  /\ bgHandler' = "closePage"
  /\ UNCHANGED <<bgPage, bgWork, bgLog>>
  /\ UNCHANGED <<truncIn, truncOut, parseVars, attachVars>>
  /\ UNCHANGED nonTruncVars

\* page.close() resolves and the handler returns (route.ts 139-160).
HandlerClosesPage ==
  /\ bgHandler = "closePage"
  /\ bgPage' = "closed"
  /\ bgHandler' = "responded"
  /\ UNCHANGED <<bgWork, bgLog>>
  /\ UNCHANGED <<truncIn, truncOut, parseVars, attachVars>>
  /\ UNCHANGED nonTruncVars

BackgroundNext ==
  \/ \E w \in Races : PageOperation(w)
  \/ \E w \in Races : TimerWins(w)
  \/ \E ok \in BOOLEAN : ScrapeEnds(ok)
  \/ StrategyStarts
  \/ \E w \in {"extraction", "strategy"} : WorkEnds(w)
  \/ DetectionReturns
  \/ HandlerClosesPage

(***************************************************************************)
(* The snippet attached to a component                                     *)
(*                                                                         *)
(* The places where the outer HTML of an element found on the page becomes *)
(* component.snippet: the AI's selector (part_001 546-550), a fallback     *)
(* cascade (555-560), the traditional pattern (898-902) and the provider   *)
(* scan (941-947).                                                         *)
(***************************************************************************)
AttachPaths == {"selector", "fallback", "traditionalPattern", "oauthPattern"}

\* component.snippet for the outer HTML `outer` found on the code path `path`.
AttachedSnippet(path, outer) ==
  IF path = "fallback" THEN outer ELSE truncateSnippet(outer)

AttachInit ==
  /\ atPath \in AttachPaths
  /\ atOuter \in SnippetInputs \ {<<>>}
  /\ atSnippet = NotYet

\* The variables of the attachment when no component is being built.
AttachRest ==
  /\ atPath = "selector"
  /\ atOuter = <<>>
  /\ atSnippet = NotYet

AttachSnippet ==
  /\ atSnippet = NotYet
  /\ atSnippet' = AttachedSnippet(atPath, atOuter)
  /\ UNCHANGED <<atPath, atOuter>>
  /\ UNCHANGED <<truncIn, truncOut, parseVars, backgroundVars>>
  /\ UNCHANGED nonTruncVars

AttachNext == AttachSnippet

TruncInit ==
  /\ truncIn \in SnippetInputs
  /\ truncOut = NotYet
  /\ ParseRest
  /\ BackgroundRest
  /\ AttachRest

\* The truncation variables when no snippet is being truncated.
TruncRest ==
  /\ truncIn = <<>>
  /\ truncOut = NotYet
  /\ ParseRest
  /\ BackgroundRest
  /\ AttachRest

Truncate ==
  /\ truncOut = NotYet
  /\ truncOut' = truncateSnippet(truncIn)
  /\ UNCHANGED <<truncIn, parseVars, backgroundVars, attachVars>>
  /\ UNCHANGED nonTruncVars

TruncNext == Truncate

(***************************************************************************)
(* intelligentFallbackExtraction (part_001 621-642)                        *)
(***************************************************************************)
\* Values of component.type: the three of the AuthComponent type, and other strings,
\* which the AI's JSON can hold because parseAIResponse does not validate components.
ComponentTypes ==
  {"traditional", "oauth", "passwordless", "saml", "", "__proto__", "constructor",
   "toString", "valueOf", "hasOwnProperty"}

\* What the page holds for the fallback selectors.
PageFeatures == {"passwordForm", "providerButton", "otpInput"}

ProviderLists == {<<>>, <<"Google">>, <<"Google", "GitHub">>}

NoFallback == [raised |-> FALSE, value |-> "(not yet)"]

\* The property read fallbackHandlers[component.type] on the object literal of
\* part_001 630-634: an own property for the three keys, otherwise whatever
\* Object.prototype provides under that name, otherwise undefined.
HandlerLookup(type) ==
  CASE type \in {"oauth", "traditional", "passwordless"} -> "own"
    [] type = "__proto__" -> "Object.prototype"
    [] type = "constructor" -> "Object"
    [] type \in {"toString", "valueOf", "hasOwnProperty"} -> "Object.prototype." \o type
    [] OTHER -> "undefined"

\* extractOAuthFallback (648-704), extractTraditionalFallback (707-717) and
\* extractPasswordlessFallback (722-739): the element's HTML when a strategy finds one,
\* otherwise the handler's own placeholder.
OwnHandler(type, features, providers) ==
  CASE type = "oauth" ->
         IF providers # <<>> /\ "providerButton" \in features
         THEN "html" ELSE "<!-- OAuth detected (extraction timed out) -->"
    [] type = "traditional" ->
         IF "passwordForm" \in features
         THEN "html" ELSE "<!-- Traditional login detected (could not extract HTML) -->"
    [] type = "passwordless" ->
         IF "otpInput" \in features
         THEN "html" ELSE "<!-- Passwordless detected (could not extract HTML) -->"

\* part_001 637-641: if (handler) return await handler(); otherwise the placeholder.
\* A handler inherited from Object.prototype is truthy: calling the prototype object is a
\* TypeError, Object() gives an empty object, toString gives "[object Undefined]", and
\* valueOf and hasOwnProperty throw a TypeError because this is undefined.
intelligentFallbackExtraction(type, features, providers) ==
  LET handler == HandlerLookup(type)
  IN  CASE handler = "own" ->
             [raised |-> FALSE, value |-> OwnHandler(type, features, providers)]
        [] handler = "undefined" ->
             [raised |-> FALSE, value |-> "<!-- auth detected (fallback failed) -->"]
        [] handler = "Object" -> [raised |-> FALSE, value |-> "{}"]
        [] handler = "Object.prototype.toString" ->
             [raised |-> FALSE, value |-> "[object Undefined]"]
        [] OTHER -> [raised |-> TRUE, value |-> "TypeError"]

\* ---- extractOAuthFallback (part_001 648-704) ----
FALLBACK_OVERALL == 8000

FALLBACK_PER_STRATEGY == 1500

\* buildOAuthStrategies (part_001 749-764): the provider's name in a button, the phrase
\* "Sign in with <provider>" in a button, the data-provider attribute.
buildOAuthStrategies == <<"text", "signInWith", "dataProvider">>

OAuthProviderLists ==
  {<<>>, <<"Google">>, <<"Google", "GitHub">>, <<"Google", "GitHub", "Apple">>}

\* How long one attemptStrategyWithTimeout can take (part_001 769-793): the race ends
\* when extractWithSelector settles or when the timer of FALLBACK_PER_STRATEGY fires.
AttemptDurations == {0, 1000, FALLBACK_PER_STRATEGY}

NoOAuthFallback == [kind |-> "(not yet)", providers |-> <<>>, elapsed |-> 0]

\* The attempt the two nested loops come to after n attempts (part_001 661, 670-672).
AttemptAt(providers, n) ==
  [provider |-> providers[(n \div Len(buildOAuthStrategies)) + 1],
   strategy |-> buildOAuthStrategies[(n % Len(buildOAuthStrategies)) + 1]]

AttemptsLeft(providers, n) == n < Len(providers) * Len(buildOAuthStrategies)

\* The budget test made before every provider and before every strategy (part_001 662,
\* 673).  The break of the inner loop leads to the same test in the outer loop.
OverBudget(elapsed) == elapsed > FALLBACK_OVERALL

\* The cascade that goes on after a strategy has found the element.
ReturnsSnippet_Never(resolved) == FALSE

\* if (snippet) return snippet (part_001 682-690).
ReturnsSnippet(resolved) == resolved

\* The providers the placeholder names (part_001 703): providers.join(', ').
PlaceholderProviders(providers, log) == providers

OAuthFallbackInit ==
  /\ ofProviders \in OAuthProviderLists
  /\ ofElapsed = 0
  /\ ofLog = <<>>
  /\ ofResult = NoOAuthFallback

\* The variables of the OAuth fallback when it is not running.
OAuthFallbackRest ==
  /\ ofProviders = <<>>
  /\ ofElapsed = 0
  /\ ofLog = <<>>
  /\ ofResult = NoOAuthFallback

\* One pass of the inner loop (part_001 672-691): the budget test, the attempt, which
\* takes `duration` and finds the element or not, and the return of the snippet.
OAuthAttempt(duration, resolved) ==
  /\ ofResult = NoOAuthFallback
  /\ AttemptsLeft(ofProviders, Len(ofLog))
  /\ ~OverBudget(ofElapsed)
  /\ ofLog' = Append(ofLog, [provider |-> AttemptAt(ofProviders, Len(ofLog)).provider,
                              strategy |-> AttemptAt(ofProviders, Len(ofLog)).strategy,
                              startedAt |-> ofElapsed, resolved |-> resolved])
  /\ ofElapsed' = ofElapsed + duration
  /\ ofResult' = IF ReturnsSnippet(resolved)
                 THEN [kind |-> "snippet", providers |-> <<>>, elapsed |-> ofElapsed']
                 ELSE ofResult
  /\ UNCHANGED <<ofProviders, fbType, fbPage, fbProviders, fbResult, csSelector, csResult>>
  /\ UNCHANGED cascadeVars
  /\ UNCHANGED nonFallbackVars

\* The loops end without a snippet (part_001 662-668, 673-675, 695-703): no provider is
\* left or the budget is used up.
OAuthGiveUp ==
  /\ ofResult = NoOAuthFallback
  /\ ~AttemptsLeft(ofProviders, Len(ofLog)) \/ OverBudget(ofElapsed)
  /\ ofResult' = [kind |-> "placeholder",
                  providers |-> PlaceholderProviders(ofProviders, ofLog),
                  elapsed |-> ofElapsed]
  /\ UNCHANGED <<ofProviders, ofElapsed, ofLog>>
  /\ UNCHANGED <<fbType, fbPage, fbProviders, fbResult, csSelector, csResult, cascadeVars>>
  /\ UNCHANGED nonFallbackVars

OAuthFallbackNext ==
  \/ \E duration \in AttemptDurations, resolved \in BOOLEAN : OAuthAttempt(duration, resolved)
  \/ OAuthGiveUp

\* ---- extractComponentSnippet (part_001 518-577) ----
\* component.details.playwrightSelector: absent ("none"), or a selector that matches an
\* element ("hit"), matches nothing within the 5 s wait ("miss"), or makes the locator
\* calls reject, as a selector Playwright cannot parse does ("raises").
SelectorKinds == {"none", "hit", "miss", "raises"}

NoSnippet == [queried |-> FALSE, snippet |-> "(not yet)"]

\* extractWithSelector (part_001 582-611): the element's outer HTML, or null when there
\* is no element (599-602) and when any locator call rejects (605-610).
extractWithSelector(selector) == IF selector = "hit" THEN "outerHTML" ELSE "null"

\* extractComponentSnippet (part_001 518-577).
extractComponentSnippet(selector, type, features, providers) ==
  IF selector = "none"
  THEN [queried |-> FALSE, snippet |-> "<!-- auth detected but no selector provided -->"]
  ELSE LET snippet == extractWithSelector(selector)
           fallback == intelligentFallbackExtraction(type, features, providers)
       IN  IF snippet # "null"
           THEN [queried |-> TRUE, snippet |-> "truncateSnippet(outerHTML)"]
           ELSE IF fallback.raised
           THEN [queried |-> TRUE, snippet |-> "<!-- auth detected (extraction failed) -->"]
           ELSE [queried |-> TRUE, snippet |-> fallback.value]

\* ---- extractTraditionalFallback, extractPasswordlessFallback (part_001 707-739) ----
\* The strategies of extractTraditionalFallback (part_001 708-713): a form with a password
\* input, then a form whose action names login, signin, auth.
traditionalStrategies == <<"passwordForm", "loginAction", "signinAction", "authAction">>

\* The strategies of extractPasswordlessFallback (part_001 727-733): a button with the
\* method's name, a passkey button, a magic link button, a numeric input, a
\* webauthn-subtle element.
passwordlessStrategies == <<"method", "passkey", "magicLink", "numericOtp", "webauthn">>

strategiesOf(type) ==
  IF type = "traditional" THEN traditionalStrategies ELSE passwordlessStrategies

\* return snippet || '<!-- ... (could not extract HTML) -->' (part_001 716, 736).
CascadePlaceholder(type) ==
  IF type = "traditional"
  THEN "<!-- Traditional login detected (could not extract HTML) -->"
  ELSE "<!-- Passwordless detected (could not extract HTML) -->"

NoCascade == [kind |-> "(not yet)", value |-> "", by |-> 0]

\* The loop that goes on to the next strategy whatever the last one found.
FoundSnippet_Never(snippet) == FALSE

\* if (snippet) return snippet (part_001 805-810).
FoundSnippet(snippet) == snippet # "null"

CascadeInit ==
  /\ tsType \in {"traditional", "passwordless"}
  /\ tsOutcomes \in [1..Len(strategiesOf(tsType)) -> {"hit", "miss", "raises"}]
  /\ tsLog = <<>>
  /\ tsResult = NoCascade

\* The variables of the two cascades when neither runs.
CascadeRest ==
  /\ tsType = "traditional"
  /\ tsOutcomes = <<>>
  /\ tsLog = <<>>
  /\ tsResult = NoCascade

\* One pass of the loop of tryStrategiesSequentially (part_001 804-811).
TryStrategy ==
  /\ tsResult = NoCascade
  /\ Len(tsLog) < Len(tsOutcomes)
  /\ tsLog' = Append(tsLog, strategiesOf(tsType)[Len(tsLog) + 1])
  /\ tsResult' = IF FoundSnippet(extractWithSelector(tsOutcomes[Len(tsLog) + 1]))
                 THEN [kind |-> "snippet",
                       value |-> extractWithSelector(tsOutcomes[Len(tsLog) + 1]),
                       by |-> Len(tsLog) + 1]
                 ELSE tsResult
  /\ UNCHANGED <<tsType, tsOutcomes>>
  /\ UNCHANGED <<fbType, fbPage, fbProviders, fbResult, csSelector, csResult, oauthFallbackVars>>
  /\ UNCHANGED nonFallbackVars

\* The loop ends without a snippet: return null (part_001 812), which the caller turns
\* into its placeholder (716, 736).
CascadeGiveUp ==
  /\ tsResult = NoCascade
  /\ tsOutcomes # <<>>
  /\ Len(tsLog) = Len(tsOutcomes)
  /\ tsResult' = [kind |-> "placeholder", value |-> CascadePlaceholder(tsType), by |-> 0]
  /\ UNCHANGED <<tsType, tsOutcomes, tsLog>>
  /\ UNCHANGED <<fbType, fbPage, fbProviders, fbResult, csSelector, csResult, oauthFallbackVars>>
  /\ UNCHANGED nonFallbackVars

CascadeNext ==
  \/ TryStrategy
  \/ CascadeGiveUp

ComponentInit ==
  /\ fbType \in ComponentTypes
  /\ fbPage \in SUBSET PageFeatures
  /\ fbProviders \in ProviderLists
  /\ fbResult = NoFallback
  /\ csSelector \in SelectorKinds
  /\ csResult = NoSnippet
  /\ OAuthFallbackRest
  /\ CascadeRest

ExtractComponent ==
  /\ csResult = NoSnippet
  /\ csResult' = extractComponentSnippet(csSelector, fbType, fbPage, fbProviders)
  /\ UNCHANGED <<fbType, fbPage, fbProviders, fbResult, csSelector, oauthFallbackVars,
                 cascadeVars>>
  /\ UNCHANGED nonFallbackVars

ComponentNext == ExtractComponent

FallbackInit ==
  /\ fbType \in ComponentTypes
  /\ fbPage \in SUBSET PageFeatures
  /\ fbProviders \in ProviderLists
  /\ fbResult = NoFallback
  /\ csSelector = "none"
  /\ csResult = NoSnippet
  /\ OAuthFallbackRest
  /\ CascadeRest

\* The fallback variables when no fallback extraction runs.
FallbackRest ==
  /\ fbType = ""
  /\ fbPage = {}
  /\ fbProviders = <<>>
  /\ fbResult = NoFallback
  /\ csSelector = "none"
  /\ csResult = NoSnippet
  /\ OAuthFallbackRest
  /\ CascadeRest

FallbackExtract ==
  /\ fbResult = NoFallback
  /\ fbResult' = intelligentFallbackExtraction(fbType, fbPage, fbProviders)
  /\ UNCHANGED <<fbType, fbPage, fbProviders, csSelector, csResult, oauthFallbackVars,
                 cascadeVars>>
  /\ UNCHANGED nonFallbackVars

FallbackNext == FallbackExtract

(***************************************************************************)
(* detectOAuthPattern (part_001 909-949)                                   *)
(*                                                                         *)
(* The page is given by the providers a <button> element names in its text *)
(* and the providers a link (<a>) names in its text.                       *)
(***************************************************************************)
oauthProviders == <<"google", "facebook", "github", "twitter", "apple", "microsoft">>

ProviderNames == {oauthProviders[i] : i \in 1..Len(oauthProviders)}

NoOAuthScan == [found |-> FALSE, providers |-> <<"(not yet)">>]

\* extractWithSelector(page, `button:has-text("${provider}")`) returns a snippet
\* (part_001 916): the selector names button elements only.
ScanMatches(provider, buttons, links) == provider \in buttons

\* detectOAuthPattern (part_001 909-949): null with no provider found, otherwise the
\* component with the providers found, in the order of oauthProviders.
detectOAuthPattern(buttons, links) ==
  LET foundProviders == SelectSeq(oauthProviders, LAMBDA p : ScanMatches(p, buttons, links))
  IN  [found |-> foundProviders # <<>>, providers |-> foundProviders]

OAuthScanInit ==
  /\ oaButtons \in SUBSET ProviderNames
  /\ oaLinks \in SUBSET ProviderNames
  /\ oaResult = NoOAuthScan

\* The variables of the provider scan when it is not running.
OAuthScanRest ==
  /\ oaButtons = {}
  /\ oaLinks = {}
  /\ oaResult = NoOAuthScan

DetectOAuth ==
  /\ oaResult = NoOAuthScan
  /\ oaResult' = detectOAuthPattern(oaButtons, oaLinks)
  /\ UNCHANGED <<oaButtons, oaLinks, patPage, patResult, modalVars>>
  /\ UNCHANGED nonPatternVars

OAuthScanNext == DetectOAuth

(***************************************************************************)
(* triggerAuthModals (src/lib/modern-web-helpers.ts 39-123) inside         *)
(* extractAllContent (src/lib/scraper.ts 231-270)                          *)
(*                                                                         *)
(* A trigger is named by its selector.  What a trigger does on the page is *)
(* one of: "absent" (page.$ resolves null), "raises" (page.$, the click or *)
(* the visibility probe rejects), "noModal" (clicked, no modal visible),   *)
(* "modal" (clicked, a modal is visible).                                  *)
(***************************************************************************)
authTriggers ==
  <<"button:Sign in", "button:Log in", "button:Login", "a:Sign in", "a:Log in", "a:Login",
    "testid:login", "testid:signin", "aria:login", "aria:sign in", ".login-button",
    ".signin-button", ".auth-button", ".sign-in-btn">>

maxAttemptTime == 5000

TriggerOutcomes == {"absent", "raises", "noModal", "modal"}

\* What one trigger can cost: nothing, the 300 ms settle wait, the 1000 ms click
\* timeout, or both (modern-web-helpers.ts 87-90).
TriggerDurations == {0, 300, 1000, 1300}

NoModalResult == [kind |-> "(not yet)", value |-> FALSE]

NoContent == [html |-> "(not yet)", modalTriggered |-> FALSE]

\* The catch of the loop body (modern-web-helpers.ts 110-113), rethrowing.
CatchTrigger_Rethrow == "rethrow"

\* The catch of the loop body (modern-web-helpers.ts 110-113): continue.
CatchTrigger == "continue"

\* The test that opens the loop body (modern-web-helpers.ts 70).
ModalBudgetSpent(elapsed) == elapsed > maxAttemptTime

\* How the call ends after a trigger did `outcome`, NoModalResult when the loop goes on
\* (modern-web-helpers.ts 102-113).
AfterTrigger(outcome) ==
  IF outcome = "modal" THEN [kind |-> "returned", value |-> TRUE]
  ELSE IF outcome = "raises" /\ CatchTrigger = "rethrow"
       THEN [kind |-> "threw", value |-> FALSE]
  ELSE NoModalResult

\* page.content() (src/lib/scraper.ts 243) reads the DOM as it is when it runs.
Serialize(last) == IF last = "modal" THEN "withModal" ELSE "withoutModal"

ModalInit ==
  /\ mtLog = <<>>
  /\ mtLast = ""
  /\ mtElapsed = 0
  /\ mtResult = NoModalResult
  /\ eaHtml = "(pending)"
  /\ eaResult = NoContent

\* The variables of the modal scan when it is not running.
ModalRest ==
  /\ mtLog = <<>>
  /\ mtLast = ""
  /\ mtElapsed = 0
  /\ mtResult = NoModalResult
  /\ eaHtml = "(not run)"
  /\ eaResult = NoContent

\* One pass of the loop body (modern-web-helpers.ts 68-114) that gets past the budget
\* test.
TryTrigger(outcome, duration) ==
  /\ mtResult = NoModalResult
  /\ Len(mtLog) < Len(authTriggers)
  /\ ~ModalBudgetSpent(mtElapsed)
  /\ mtLog' = Append(mtLog, authTriggers[Len(mtLog) + 1])
  /\ mtLast' = outcome
  /\ mtElapsed' = mtElapsed + duration
  /\ mtResult' = AfterTrigger(outcome)
  /\ UNCHANGED <<eaHtml, eaResult>>
  /\ UNCHANGED <<patPage, patResult, oauthScanVars>>
  /\ UNCHANGED nonPatternVars

\* The break of the budget test or the end of the list, then return false
\* (modern-web-helpers.ts 70-76, 116-122).
ModalGiveUp ==
  /\ mtResult = NoModalResult
  /\ Len(mtLog) = Len(authTriggers) \/ ModalBudgetSpent(mtElapsed)
  /\ mtResult' = [kind |-> "returned", value |-> FALSE]
  /\ UNCHANGED <<mtLog, mtLast, mtElapsed, eaHtml, eaResult>>
  /\ UNCHANGED <<patPage, patResult, oauthScanVars>>
  /\ UNCHANGED nonPatternVars

\* page.content() of the Promise.all (src/lib/scraper.ts 241-247) resolves: it was
\* issued with the modal scan and runs alongside it.
SerializeContent ==
  /\ eaHtml = "(pending)"
  /\ eaHtml' = Serialize(mtLast)
  /\ UNCHANGED <<mtLog, mtLast, mtElapsed, mtResult, eaResult>>
  /\ UNCHANGED <<patPage, patResult, oauthScanVars>>
  /\ UNCHANGED nonPatternVars

\* The Promise.all has settled and extractAllContent returns (src/lib/scraper.ts
\* 249-269).
ExtractAllContentReturn ==
  /\ eaResult = NoContent
  /\ mtResult.kind = "returned"
  /\ eaHtml \notin {"(pending)", "(not run)"}
  /\ eaResult' = [html |-> eaHtml, modalTriggered |-> mtResult.value]
  /\ UNCHANGED <<mtLog, mtLast, mtElapsed, mtResult, eaHtml>>
  /\ UNCHANGED <<patPage, patResult, oauthScanVars>>
  /\ UNCHANGED nonPatternVars

ModalNext ==
  \/ \E outcome \in TriggerOutcomes, duration \in TriggerDurations :
       TryTrigger(outcome, duration)
  \/ ModalGiveUp
  \/ SerializeContent
  \/ ExtractAllContentReturn

(***************************************************************************)
(* detectTraditionalPattern (part_001 876-904)                             *)
(*                                                                         *)
(* The page is the sequence of its forms, in document order; a form is the *)
(* set of the type attributes of its inputs.                               *)
(***************************************************************************)
InputTypes == {"email", "text", "password"}

Pages == UNION {[1..n -> SUBSET InputTypes] : n \in 0..MaxForms}

NoComponent == [found |-> FALSE, form |-> 0, fields |-> <<>>]

NoPattern == [found |-> FALSE, form |-> 0, fields |-> <<"(not yet)">>]

\* page.locator('form:has(input[type="password"])').first() (part_001 880, 588): the
\* index of the first form with a password input, 0 when there is none.
FirstPasswordForm(forms) ==
  IF \E i \in 1..Len(forms) : "password" \in forms[i]
  THEN CHOOSE i \in 1..Len(forms) :
         "password" \in forms[i] /\ \A j \in 1..(i - 1) : "password" \notin forms[j]
  ELSE 0

\* formSnippet.includes('type="t"') (part_001 887-891) on the form's outerHTML.
Includes(form, t) == t \in form

\* The test that puts 'email' into fields (part_001 887).
HasEmailField(form) == Includes(form, "email") \/ Includes(form, "text")

\* detectTraditionalPattern (part_001 876-904).
detectTraditionalPattern(forms) ==
  LET i == FirstPasswordForm(forms)
  IN  IF i = 0 THEN NoComponent
      ELSE [found |-> TRUE, form |-> i,
            fields |-> (IF HasEmailField(forms[i]) THEN <<"email">> ELSE <<>>)
                       \o (IF Includes(forms[i], "password") THEN <<"password">> ELSE <<>>)]

PatternInit ==
  /\ patPage \in Pages
  /\ patResult = NoPattern
  /\ OAuthScanRest
  /\ ModalRest

\* The variables of the traditional pattern when it is not running.
PatternRest ==
  /\ patPage = <<>>
  /\ patResult = NoPattern
  /\ OAuthScanRest
  /\ ModalRest

DetectTraditional ==
  /\ patResult = NoPattern
  /\ patResult' = detectTraditionalPattern(patPage)
  /\ UNCHANGED <<patPage, oauthScanVars, modalVars>>
  /\ UNCHANGED nonPatternVars

PatternNext == DetectTraditional

(***************************************************************************)
(* Specifications                                                          *)
(***************************************************************************)
InitAll == PoolInit /\ ReqInit /\ NormRest /\ CacheRest /\ DetectRest /\ TruncRest
  /\ FallbackRest /\ PatternRest

InitNorm == PoolInit /\ ReqInit /\ NormInit /\ CacheRest /\ DetectRest /\ TruncRest
  /\ FallbackRest /\ PatternRest

SpecPool == InitAll /\ [][PoolNext]_vars

SpecPoolIdle == InitAll /\ [][PoolIdleNext]_vars

SpecRequest == InitAll /\ [][ReqNext]_vars

SpecNorm == InitNorm /\ [][NormNext]_vars

InitCache == PoolInit /\ ReqInit /\ NormRest /\ CacheInit /\ DetectRest /\ TruncRest
  /\ FallbackRest /\ PatternRest

SpecCache == InitCache /\ [][CacheNext]_vars

InitLru == PoolInit /\ ReqInit /\ NormRest /\ LruInit /\ DetectRest /\ TruncRest
  /\ FallbackRest /\ PatternRest

SpecLru == InitLru /\ [][LruNext]_vars

InitDetect == PoolInit /\ ReqInit /\ NormRest /\ CacheRest /\ DetectInit /\ TruncRest
  /\ FallbackRest /\ PatternRest

SpecDetect == InitDetect /\ [][DetectNext]_vars

\* The event loop runs a callback that is ready: a settled promise's continuation, or a
\* timer that is due.
SpecDetectFair == InitDetect /\ [][DetectNext]_vars /\ WF_vars(DetectNext)

InitTrunc == PoolInit /\ ReqInit /\ NormRest /\ CacheRest /\ DetectRest /\ TruncInit
  /\ FallbackRest /\ PatternRest

SpecTrunc == InitTrunc /\ [][TruncNext]_vars

InitParse == PoolInit /\ ReqInit /\ NormRest /\ CacheRest /\ DetectRest
  /\ truncIn = <<>> /\ truncOut = NotYet /\ ParseInit /\ BackgroundRest /\ AttachRest
  /\ FallbackRest /\ PatternRest

SpecParse == InitParse /\ [][ParseNext]_vars

InitBackground == PoolInit /\ ReqInit /\ NormRest /\ CacheRest /\ DetectRest
  /\ truncIn = <<>> /\ truncOut = NotYet /\ ParseRest /\ BackgroundInit /\ AttachRest
  /\ FallbackRest /\ PatternRest

SpecBackground == InitBackground /\ [][BackgroundNext]_vars

InitAttach == PoolInit /\ ReqInit /\ NormRest /\ CacheRest /\ DetectRest
  /\ truncIn = <<>> /\ truncOut = NotYet /\ ParseRest /\ BackgroundRest /\ AttachInit
  /\ FallbackRest /\ PatternRest

SpecAttach == InitAttach /\ [][AttachNext]_vars

InitFallback ==
  PoolInit /\ ReqInit /\ NormRest /\ CacheRest /\ DetectRest /\ TruncRest /\ FallbackInit
  /\ PatternRest

SpecFallback == InitFallback /\ [][FallbackNext]_vars

InitComponent ==
  PoolInit /\ ReqInit /\ NormRest /\ CacheRest /\ DetectRest /\ TruncRest /\ ComponentInit
  /\ PatternRest

SpecComponent == InitComponent /\ [][ComponentNext]_vars

InitOAuthFallback ==
  PoolInit /\ ReqInit /\ NormRest /\ CacheRest /\ DetectRest /\ TruncRest
  /\ fbType = "" /\ fbPage = {} /\ fbProviders = <<>> /\ fbResult = NoFallback
  /\ csSelector = "none" /\ csResult = NoSnippet
  /\ OAuthFallbackInit /\ CascadeRest /\ PatternRest

SpecOAuthFallback == InitOAuthFallback /\ [][OAuthFallbackNext]_vars

InitCascade ==
  PoolInit /\ ReqInit /\ NormRest /\ CacheRest /\ DetectRest /\ TruncRest
  /\ fbType = "" /\ fbPage = {} /\ fbProviders = <<>> /\ fbResult = NoFallback
  /\ csSelector = "none" /\ csResult = NoSnippet
  /\ OAuthFallbackRest /\ CascadeInit /\ PatternRest

SpecCascade == InitCascade /\ [][CascadeNext]_vars

InitPattern ==
  PoolInit /\ ReqInit /\ NormRest /\ CacheRest /\ DetectRest /\ TruncRest /\ FallbackRest
  /\ PatternInit

SpecPattern == InitPattern /\ [][PatternNext]_vars

InitOAuthScan ==
  PoolInit /\ ReqInit /\ NormRest /\ CacheRest /\ DetectRest /\ TruncRest /\ FallbackRest
  /\ patPage = <<>> /\ patResult = NoPattern /\ OAuthScanInit /\ ModalRest

SpecOAuthScan == InitOAuthScan /\ [][OAuthScanNext]_vars

InitModal ==
  PoolInit /\ ReqInit /\ NormRest /\ CacheRest /\ DetectRest /\ TruncRest /\ FallbackRest
  /\ patPage = <<>> /\ patResult = NoPattern /\ OAuthScanRest /\ ModalInit

SpecModal == InitModal /\ [][ModalNext]_vars

(***************************************************************************)
(* C1: N >= 1 createContext calls issued concurrently while the pool holds *)
(* no browser start exactly one browser launch, and every caller receives  *)
(* a context from that same browser: at most one launch is ever in flight, *)
(* every suspended caller waits on it, and a caller that waited issues its *)
(* newContext() on the browser that launch produced.                       *)
(***************************************************************************)
C1_LaunchDeduplicated ==
  /\ Cardinality({l \in Launches : proc[l] = "pending"}) <= 1
  /\ \A c \in Callers : pc[c] = "awaitInit" =>
        /\ proc[awaited[c]] = "pending"
        /\ awaited[c] = initPromise
  /\ \A c \in Callers : pc[c] \in {"newContext", "haveContext"} /\ awaited[c] # 0 =>
        got[c] = awaited[c]

C1_Witness ==
  \E c1, c2 \in Callers :
    /\ c1 # c2
    /\ pc[c1] = "haveContext" /\ pc[c2] = "haveContext"
    /\ awaited[c1] # 0 /\ awaited[c1] = awaited[c2]
    /\ got[c1] = got[c2]
    /\ Cardinality({l \in Launches : proc[l] # "none"}) = 1

(***************************************************************************)
(* C2: in every reachable state the pool owns at most one browser process  *)
(* that has been launched and not yet closed, and that process is the one  *)
(* the pool's browser handle references.                                   *)
(***************************************************************************)
C2_SingleOwnedBrowser ==
  \A b \in Launches : proc[b] = "up" => browser = b

(***************************************************************************)
(* C3: on every return path of scrapeWebsite, an outcome with success=true *)
(* hands the page and context over open, and an outcome with success=false *)
(* leaves no page or context created for that call open.                   *)
(***************************************************************************)
C3_FailedScrapeLeavesNothingOpen ==
  \A r \in Requests :
    scrapeResult[r].returned =>
      IF scrapeResult[r].success
      THEN rpc[r] = "detect" => page[r] = "open" /\ context[r] = "open"
      ELSE page[r] # "open" /\ context[r] # "open"

(***************************************************************************)
(* C4: for every POST whose scrape returned live handles, the handler      *)
(* calls page.close() and closeContext() exactly once each before the      *)
(* request finishes, on every exit path, the early 500 return included.    *)
(***************************************************************************)
C4_HandlerClosesOnEveryExit ==
  \A r \in Requests :
    rpc[r] = "responded" /\ scrapeResult[r].returned /\ scrapeResult[r].success =>
      routePageCloses[r] = 1 /\ routeCtxCloses[r] = 1

(***************************************************************************)
(* C8: normalize is idempotent, normalize(normalize(u)) = normalize(u),    *)
(* for every URL string u, including strings with repeated "www."          *)
(* prefixes and with several trailing slashes.                             *)
(***************************************************************************)
C8_NormalizeIdempotent ==
  keyAA # NotYet => keyAA = keyA

(***************************************************************************)
(* C9: two parseable URLs that differ only in their query string, their    *)
(* fragment, a leading "www.", the letter case of the host, or a single    *)
(* trailing slash on a non-root path normalize to the same key; a URL      *)
(* whose path is the bare root keeps its slash.                            *)
(***************************************************************************)
C9_VariantsShareKey ==
  /\ keyA # NotYet /\ keyB # NotYet
       /\ variation \in {"query", "fragment", "www", "hostcase", "slash"}
     => keyA = keyB
  /\ keyA # NotYet /\ ParseURL(urlA).ok /\ ParseURL(urlA).pathname = <<"/">>
     => keyA[Len(keyA)] = "/"

(***************************************************************************)
(* C5: after set(u, r) with a cacheable r, and with no invalidate, clear   *)
(* or eviction of that key since, a get(u') for any u' with the same       *)
(* normalized key made within the TTL chosen at that set returns r,        *)
(* without the cachedAt and expiresAt fields.                              *)
(***************************************************************************)
C5_GetWithinTtlReturnsStored ==
  [][\A u \in CacheUrls :
       lastOp'.op = "get" /\ get(u) =>
         LET g == setLog[KeyOf[u]]
         IN  g.valid /\ clock - g.at <= g.ttl => lastOp'.ret = <<g.result>>]_vars

C5_Witness ==
  /\ lastOp.op = "get"
  /\ \E k \in CacheKeys :
       /\ setLog[k].valid
       /\ clock = setLog[k].at + setLog[k].ttl
       /\ lastOp.ret = <<setLog[k].result>>
       /\ \E i \in 1..Len(cache) : cache[i].key = k /\ cache[i].start = clock

(***************************************************************************)
(* C6: once the TTL chosen at set time has elapsed since that set, and no  *)
(* later set for the key intervened, get for that key returns absent,      *)
(* whatever get and has calls were made in between.                        *)
(***************************************************************************)
C6_ExpiredIsAbsent ==
  [][\A u \in CacheUrls :
       lastOp'.op = "get" /\ get(u) =>
         LET g == setLog[KeyOf[u]]
         IN  g.valid /\ clock - g.at > g.ttl => lastOp'.ret = <<>>]_vars

(***************************************************************************)
(* C7: set with a non-cacheable result is a no-op: with success = false,   *)
(* with found = false while CACHE_EMPTY_RESULTS is off, or with a pattern  *)
(* result while CACHE_PATTERN_RESULTS is off, the cache and the hit/miss   *)
(* counters are unchanged; in every other case the result is stored under  *)
(* the normalized key.                                                     *)
(***************************************************************************)
C7_SetSkipsOrStores ==
  [][\A u \in CacheUrls, r \in DetectionResults :
       lastOp'.op = "set" /\ set(u, r) =>
         IF \/ ~r.success
            \/ ~r.found /\ ~CACHE_EMPTY_RESULTS
            \/ r.detectionMethod = "pattern" /\ ~CACHE_PATTERN_RESULTS
         THEN UNCHANGED <<cache, stats>>
         ELSE /\ UNCHANGED stats
              /\ \E i \in 1..Len(cache') :
                   /\ cache'[i].key = KeyOf[u]
                   /\ WithoutMetadata(cache'[i].value) = r
                   /\ cache'[i].value.cachedAt = clock]_vars

C7_Witness ==
  /\ lastOp.op = "set"
  /\ lastOp.ret = <<"skipped">>
  /\ ~CACHE_EMPTY_RESULTS
  /\ CACHE_PATTERN_RESULTS
  /\ cache # <<>>
  /\ stats.hits > 0

(***************************************************************************)
(* C10: with an AI credential configured, whenever the AI path fails (the  *)
(* 60 s timeout, a transport error, no JSON or unparseable JSON in the     *)
(* answer, an exception during snippet extraction), detectAuthentication   *)
(* does not throw: it runs the pattern path and returns that result, with  *)
(* detectionMethod = "pattern".                                            *)
(***************************************************************************)
C10_AiFailureFallsBackToPatterns ==
  /\ apiKey /\ aiFailed # "no" => ~detectThrew /\ dpc \in {"pattern", "done"}
  /\ apiKey /\ aiFailed # "no" /\ dpc = "done" =>
       /\ patternRan
       /\ detectResult.success
       /\ detectResult.detectionMethod = "pattern"
       /\ detectResult.components = PatternComponents

C10_Witness ==
  /\ apiKey
  /\ aiFailed = "extraction"
  /\ dpc = "done"
  /\ detectResult.detectionMethod = "pattern"
  /\ detectResult.found
  /\ Len(aiResponse.components) = 2

(***************************************************************************)
(* C11: when no AI credential is configured, detectAuthentication makes    *)
(* no AI call at all and returns the pattern-path result, with             *)
(* detectionMethod = "pattern" and success = true; the missing credential  *)
(* is never reported as an error.                                          *)
(***************************************************************************)
C11_NoCredentialMeansPatternPath ==
  ~apiKey =>
    /\ dpc \notin {"aiCall", "extract"}
    /\ aiResponse = NoAiResponse
    /\ aiFailed = "no"
    /\ ~detectThrew
    /\ dpc = "done" =>
         /\ patternRan
         /\ detectResult.success
         /\ detectResult.detectionMethod = "pattern"
         /\ detectResult.components = PatternComponents

C11_Witness ==
  /\ ~apiKey
  /\ dpc = "done"
  /\ detectResult.detectionMethod = "pattern"
  /\ detectResult.found

(***************************************************************************)
(* C12: every DetectionResult produced by detectAuthentication, on the AI  *)
(* path or on the pattern path (and so every result later served from the  *)
(* cache), satisfies found = (components is non-empty).                    *)
(***************************************************************************)
C12_FoundIffComponents ==
  dpc = "done" /\ ~detectThrew =>
    detectResult.found = (Len(detectResult.components) > 0)

(***************************************************************************)
(* C13: for every HTML input (of any length, with void elements, with      *)
(* mismatched closing tags, or with a single tag longer than the cap),     *)
(* truncateSnippet returns text whose tags are balanced and whose length   *)
(* is at most the cap plus the length of the appended closing tags.        *)
(* Balanced is read in the way most favourable to the output: either with  *)
(* void elements needing no closing tag, or with every tag needing one.    *)
(***************************************************************************)
C13_TruncationWellFormed ==
  truncOut # NotYet =>
    /\ Balanced(truncOut, 1, <<>>, VoidNames) \/ Balanced(truncOut, 1, <<>>, {})
    /\ Len(truncIn) > MAX_SNIPPET =>
         \E n \in 0..MAX_SNIPPET :
           /\ n <= Len(truncOut)
           /\ SubSeq(truncOut, 1, n) = SubSeq(truncIn, 1, n)
           /\ SubSeq(truncOut, n + 1, Len(truncOut))
                = ClosingTags(OpenTags(SubSeq(truncIn, 1, n), 1, <<>>))

(***************************************************************************)
(* C14: the fallback dispatch has a handler for each of the types          *)
(* traditional, oauth and passwordless; for any other type                 *)
(* intelligentFallbackExtraction returns the '(fallback failed)'           *)
(* placeholder and never raises.                                           *)
(***************************************************************************)
C14_FallbackDispatchTotal ==
  /\ \A t \in {"traditional", "oauth", "passwordless"} : HandlerLookup(t) = "own"
  /\ fbResult # NoFallback /\ fbType \notin {"traditional", "oauth", "passwordless"} =>
       /\ ~fbResult.raised
       /\ fbResult.value = "<!-- auth detected (fallback failed) -->"

(***************************************************************************)
(* C15: when a POST arrives for a URL whose normalized key was stored by   *)
(* an earlier POST's cacheable result, and the entry's time-to-live has    *)
(* not run out, the response has cached=true and the request acquires no   *)
(* browser context and performs no navigation (it never enters              *)
(* scrapeWebsite), neither then nor later.                                  *)
(***************************************************************************)
C15_RepeatServedFromCache ==
  /\ [][\A r \in Requests :
          (/\ rpc[r] = "idle" /\ rpc'[r] # "idle"
           /\ reqUrl'[r] # NoUrl
           /\ setLog[KeyOf[reqUrl'[r]]].valid
           /\ clock - setLog[KeyOf[reqUrl'[r]]].at <= setLog[KeyOf[reqUrl'[r]]].ttl)
          => /\ rpc'[r] = "responded"
             /\ response'[r].status = 200
             /\ response'[r].cached = "true"
             /\ response'[r].payload
             /\ spc'[r] = "none" /\ context'[r] = "none" /\ page'[r] = "none"]_vars
  /\ [](\A r \in Requests :
          response[r].cached = "true"
            => spc[r] = "none" /\ context[r] = "none" /\ page[r] = "none")

C15_Witness ==
  \E r1, r2 \in Requests :
    /\ rpc[r1] = "responded" /\ response[r1].status = 200 /\ response[r1].cached = "false"
    /\ rpc[r2] = "responded" /\ response[r2].cached = "true"
    /\ reqUrl[r1] # reqUrl[r2]
    /\ clock > 0

C17_DetectionAlwaysEnds == <>(dpc = "done")

(***************************************************************************)
(* C18 as stated: when a launch fails, every caller awaiting it gets the   *)
(* failure and the pool is left not initializing, with no pending launch   *)
(* future and with no browser handle.                                      *)
(***************************************************************************)
C18_FailedLaunchLeavesNoHandle ==
  [][\A l \in Launches :
       proc[l] = "pending" /\ proc'[l] = "failed" =>
         /\ \A c \in Callers : pc[c] = "awaitInit" /\ awaited[c] = l => pc'[c] = "rejected"
         /\ ~isInitializing'
         /\ initPromise' = 0
         /\ browser' = 0]_vars

(***************************************************************************)
(* C18, amended: when a launch fails, every caller awaiting it gets the    *)
(* failure and the pool is left not initializing, with no pending launch   *)
(* future and with no connected browser (the handle is empty or refers to  *)
(* a browser that has disconnected); and a createContext call that has to  *)
(* wait always waits for a launch in progress, never for a failed one.     *)
(***************************************************************************)
C18_FailedLaunchResetsPool ==
  /\ [][\A l \in Launches :
          proc[l] = "pending" /\ proc'[l] = "failed" =>
            /\ \A c \in Callers :
                 pc[c] = "awaitInit" /\ awaited[c] = l => pc'[c] = "rejected"
            /\ ~isInitializing'
            /\ initPromise' = 0
            /\ browser' = 0 \/ proc'[browser'] # "up"]_vars
  /\ [][\A c \in Callers :
          pc[c] = "idle" /\ pc'[c] = "awaitInit" =>
            /\ awaited'[c] # 0
            /\ proc'[awaited'[c]] = "pending"]_vars

C18_Witness ==
  \E l1, l2 \in Launches, c1, c2 \in Callers :
    /\ proc[l1] = "failed" /\ pc[c1] = "rejected" /\ awaited[c1] = l1
    /\ proc[l2] = "pending" /\ pc[c2] = "awaitInit" /\ awaited[c2] = l2

(***************************************************************************)
(* C19: when an idle tick finds the browser idle for longer than the       *)
(* threshold, the browser is closed; a createContext call issued after     *)
(* that tick, one that interleaves with the close in progress included,    *)
(* obtains a context on a live browser and does not fail because of the    *)
(* teardown.  With the idle monitor as the only thing that ends a browser, *)
(* a createContext call made after closeBrowser was entered is rejected    *)
(* only when the launch it waited for failed.                              *)
(***************************************************************************)
C19_IdleTeardownIsTransparent ==
  \A c \in Callers :
    afterTeardown[c] /\ pc[c] = "rejected" =>
      awaited[c] # 0 /\ proc[awaited[c]] = "failed"

(***************************************************************************)
(* C20: on the pattern path a 'traditional' component is produced exactly  *)
(* when the page has a form with a password input; its fields hold 'email' *)
(* exactly when that form has an email-typed input and 'password' exactly  *)
(* when it has a password-typed input.                                     *)
(***************************************************************************)
C20_TraditionalFieldsMatchForm ==
  patResult # NoPattern =>
    /\ patResult.found = (\E i \in 1..Len(patPage) : "password" \in patPage[i])
    /\ patResult.found =>
         LET form == patPage[patResult.form]
             fields == {patResult.fields[k] : k \in 1..Len(patResult.fields)}
         IN  /\ "email" \in fields <=> "email" \in form
             /\ "password" \in fields <=> "password" \in form

(***************************************************************************)
(* C21: on the pattern path the provider scan checks buttons and links for *)
(* each of the six providers: an 'oauth' component is produced exactly     *)
(* when at least one provider is named by a button or a link, and its      *)
(* providers list is exactly the providers named, in the fixed order.      *)
(***************************************************************************)
C21_ProviderScanCoversButtonsAndLinks ==
  oaResult # NoOAuthScan =>
    /\ oaResult.found = (oaButtons \cup oaLinks # {})
    /\ oaResult.found =>
         oaResult.providers = SelectSeq(oauthProviders, LAMBDA p : p \in oaButtons \cup oaLinks)

(***************************************************************************)
(* C22: every result of the pattern path has success = true and            *)
(* detectionMethod = 'pattern', and its components are at most one         *)
(* 'traditional' component followed by at most one 'oauth' component; the  *)
(* pattern path never reports a 'passwordless' component.                  *)
(***************************************************************************)
C22_PatternResultShape ==
  (dpc = "done" /\ patternRan /\ ~detectThrew) =>
    /\ detectResult.success
    /\ detectResult.detectionMethod = "pattern"
    /\ detectResult.components \in
         {<<>>, <<"traditional">>, <<"oauth">>, <<"traditional", "oauth">>}

C22_Witness ==
  /\ dpc = "done"
  /\ patternRan
  /\ detectResult.detectionMethod = "pattern"
  /\ detectResult.components = <<"traditional", "oauth">>

(***************************************************************************)
(* C23: after any sequence of set, get, has, delete and clear the cache    *)
(* never holds more than max entries; a set of a new key into a full cache *)
(* drops exactly one entry, the one used least recently, where a set and a *)
(* successful get both count as a use; no other call drops an entry for    *)
(* lack of room.                                                           *)
(***************************************************************************)
C23_CapacityAndLruEviction ==
  [][/\ Len(cache') <= MAX_SIZE
     /\ \A u \in LruUrls, r \in LruResults :
          set(u, r) /\ Cacheable(r) =>
            LET before == {cache[i].key : i \in 1..Len(cache)}
                after == {cache'[i].key : i \in 1..Len(cache')}
                dropped == before \ after
                full == Len(cache) = MAX_SIZE /\ KeyOf[u] \notin before
            IN  /\ after = (before \ dropped) \cup {KeyOf[u]}
                /\ IF full THEN Cardinality(dropped) = 1 ELSE dropped = {}
                /\ \A i, j \in 1..Len(cache) :
                     cache[i].key \in dropped => cache[i].start <= cache[j].start]_vars

\* A set has just dropped an entry of a full cache while an entry stored at an earlier
\* time and read since then was kept.
C23_Witness ==
  /\ lastOp.op = "set"
  /\ lastOp.evicted # {}
  /\ Len(cache) = MAX_SIZE
  /\ stats.hits > 0
  /\ cache[1].value.cachedAt < cache[1].start
  /\ cache[1].start < cache[2].start

(***************************************************************************)
(* C24: the hit and miss counters are cumulative: no call of get, set,     *)
(* has, delete or clear decreases either of them; a get increments exactly *)
(* one of the two by one; no other call changes them.                      *)
(***************************************************************************)
C24_CountersAreCumulative ==
  [][/\ stats'.hits >= stats.hits
     /\ stats'.misses >= stats.misses
     /\ \A u \in CacheUrls :
          get(u) => \/ stats' = [stats EXCEPT !.hits = @ + 1]
                    \/ stats' = [stats EXCEPT !.misses = @ + 1]
     /\ lastOp'.op # "get" => stats' = stats]_vars

(***************************************************************************)
(* C25: DELETE /api/detect with a url parameter u removes exactly the      *)
(* entry whose key is normalizeURL(u), leaves every other entry as it was  *)
(* and reports deleted = true exactly when such an entry existed; DELETE   *)
(* without the url parameter removes every entry, so that a get of any URL *)
(* finds nothing afterwards.                                               *)
(***************************************************************************)
C25_DeleteRemovesOneOrAll ==
  [][\A param \in DeleteParams :
       DeleteRoute(param) =>
         IF param.present
         THEN LET cacheKey == normalizeURL(param.url)
              IN  /\ cache' = SelectSeq(cache, LAMBDA e : e.key # cacheKey)
                  /\ DeleteResponse(param).deleted =
                       (\E i \in 1..Len(cache) : cache[i].key = cacheKey)
         ELSE \A u \in CacheUrls : ~(LruGetHit(KeyOf[u]))']_vars

(***************************************************************************)
(* C26: a failure or a timeout of the screenshot capture does not fail the *)
(* scrape: when navigation and content extraction have succeeded and the   *)
(* screenshot was not captured, scrapeWebsite returns success = true with  *)
(* the extracted html, the live page and context, and no screenshot.       *)
(***************************************************************************)
C26_ScreenshotFailureIsNotFatal ==
  [][\A r \in Requests, h \in {"", "html"} :
       PerformExtractOk(r, h, FALSE) /\ ~raceSettled[r] =>
         /\ scrapeResult'[r].returned
         /\ scrapeResult'[r].success
         /\ scrapeResult'[r].html = h
         /\ scrapeResult'[r].page /\ page'[r] = "open"
         /\ scrapeResult'[r].context /\ context'[r] = "open"
         /\ ~scrapeResult'[r].screenshot]_vars

C26_Witness ==
  \E r \in Requests :
    /\ rpc[r] = "detect"
    /\ spc[r] = "ok"
    /\ scrapeResult[r].success
    /\ scrapeResult[r].html = "html"
    /\ ~scrapeResult[r].screenshot
    /\ page[r] = "open"
    /\ context[r] = "open"

(***************************************************************************)
(* C27: extractSnippetsWithTimeout returns, in every case, one component   *)
(* per component it was given, in the same order: each with the outcome of *)
(* its own extraction when all of them finish before the 20 s timer, each  *)
(* with the 'extraction timed out' placeholder when the timer wins.  It    *)
(* never ends without a list and never drops a component.                  *)
(***************************************************************************)
C27_ExtractionKeepsEveryComponent ==
  /\ aiFailed # "extraction"
  /\ (dpc = "done" /\ detectResult.detectionMethod = "ai") =>
       /\ Len(detectResult.components) = Len(aiResponse.components)
       /\ \/ \A i \in 1..Len(aiResponse.components) :
               detectResult.components[i] = SnippetOf(aiResponse.components[i])
          \/ \A i \in 1..Len(aiResponse.components) :
               detectResult.components[i] = "extraction timed out"

(***************************************************************************)
(* C28: for a component on the AI path: with no locator proposed the       *)
(* snippet is the 'no selector provided' placeholder and the page is not   *)
(* queried; with a locator that resolves to an element it is the truncated *)
(* outer HTML of the first match; with a locator that resolves to nothing  *)
(* it is the result of the type-specific fallback cascade; and when        *)
(* resolving the locator raises an exception it is the 'detected           *)
(* (extraction failed)' placeholder.  A component comes back in each case. *)
(***************************************************************************)
C28_SnippetByLocatorOutcome ==
  csResult # NoSnippet =>
    LET fallback == intelligentFallbackExtraction(fbType, fbPage, fbProviders)
        failed == "<!-- auth detected (extraction failed) -->"
    IN  CASE csSelector = "none" ->
               /\ csResult.snippet = "<!-- auth detected but no selector provided -->"
               /\ ~csResult.queried
          [] csSelector = "hit" -> csResult.snippet = "truncateSnippet(outerHTML)"
          [] csSelector = "miss" ->
               csResult.snippet = IF fallback.raised THEN failed ELSE fallback.value
          [] csSelector = "raises" -> csResult.snippet = failed

(***************************************************************************)
(* C29: the OAuth fallback tries the providers in the order listed on the  *)
(* component and, for each, the three strategies in the order text match,  *)
(* 'Sign in with <provider>', data-provider attribute; it returns the      *)
(* snippet of the first attempt that finds an element and makes no attempt *)
(* after it; when no attempt finds one, or the list is empty, it returns a *)
(* placeholder that names the providers of the component, each of them     *)
(* whether or not the budget let it be tried, and the elapsed time.        *)
(***************************************************************************)
C29_CascadeOrderAndFirstSuccess ==
  /\ \A i \in 1..Len(ofLog) :
       /\ ofLog[i].provider = ofProviders[((i - 1) \div 3) + 1]
       /\ ofLog[i].strategy = <<"text", "signInWith", "dataProvider">>[((i - 1) % 3) + 1]
       /\ i < Len(ofLog) => ~ofLog[i].resolved
  /\ (ofLog # <<>> /\ ofLog[Len(ofLog)].resolved) = (ofResult.kind = "snippet")
  /\ ofResult.kind = "placeholder" =>
       /\ ofResult.providers = ofProviders
       /\ ofResult.elapsed = ofElapsed

\* The second strategy of the second provider found the element, after four attempts
\* that found nothing.
C29_Witness ==
  /\ ofResult.kind = "snippet"
  /\ Len(ofLog) = 5
  /\ ofLog[5].provider = "GitHub"
  /\ ofLog[5].strategy = "signInWith"
  /\ ofLog[5].resolved

\* C29 as stated: the placeholder names the providers that were attempted, those with
\* at least one strategy tried.
C29_PlaceholderNamesAttemptedProviders ==
  ofResult.kind = "placeholder" =>
    /\ ofResult.providers = SubSeq(ofProviders, 1, (Len(ofLog) + 2) \div 3)
    /\ ofResult.elapsed = ofElapsed

(***************************************************************************)
(* C30: the OAuth fallback stays within its overall budget of 8 s: every   *)
(* attempt returns within its own 1.5 s, no attempt is started once the    *)
(* budget is used up, and the cascade as a whole returns within 8 s for    *)
(* any number of providers.                                                *)
(***************************************************************************)
C30_CascadeWithinBudget ==
  /\ \A i \in 1..Len(ofLog) :
       /\ ofLog[i].startedAt <= FALLBACK_OVERALL
       /\ (IF i < Len(ofLog) THEN ofLog[i + 1].startedAt ELSE ofElapsed) - ofLog[i].startedAt
            <= FALLBACK_PER_STRATEGY
  /\ ofResult # NoOAuthFallback => ofResult.elapsed <= FALLBACK_OVERALL

(***************************************************************************)
(* C31: the traditional and the passwordless fallback try their strategies *)
(* strictly in the listed order (passwordless: the reported method, then   *)
(* passkey, magic link, numeric OTP input, WebAuthn element); they return  *)
(* the outer HTML of the first strategy that finds an element and try none *)
(* after it; a strategy that finds nothing or throws is a miss after which *)
(* the next strategy is tried; when none finds an element they return      *)
(* their placeholder.                                                      *)
(***************************************************************************)
C31_CascadeInOrderFirstHitWins ==
  LET listed == IF tsType = "traditional"
                THEN <<"passwordForm", "loginAction", "signinAction", "authAction">>
                ELSE <<"method", "passkey", "magicLink", "numericOtp", "webauthn">>
  IN  /\ Len(tsLog) <= Len(listed)
      /\ tsLog = SubSeq(listed, 1, Len(tsLog))
      /\ \A i \in 1..Len(tsLog) : i < Len(tsLog) => tsOutcomes[i] # "hit"
      /\ (tsLog # <<>> /\ tsOutcomes[Len(tsLog)] = "hit") =
           (tsResult.kind = "snippet" /\ tsResult.value = "outerHTML"
              /\ tsResult.by = Len(tsLog))
      /\ tsResult.kind = "placeholder" =>
           /\ tsLog = listed
           /\ \A i \in 1..Len(listed) : tsOutcomes[i] # "hit"
           /\ tsResult.value = CascadePlaceholder(tsType)

\* The passwordless fallback returned the numeric input's HTML after a strategy that
\* threw and two that found nothing.
C31_Witness ==
  /\ tsType = "passwordless"
  /\ tsResult.kind = "snippet"
  /\ tsResult.by = 4
  /\ tsLog = <<"method", "passkey", "magicLink", "numericOtp">>
  /\ tsOutcomes[1] = "raises"

(***************************************************************************)
(* C32: triggerAuthModals never throws.  It examines the triggers in their *)
(* listed order; the call returns true exactly when the trigger examined   *)
(* last was clicked and left a modal visible, and nothing is examined      *)
(* after that; a trigger that raises counts as a miss and the scan goes    *)
(* on; a trigger is examined only while the 5000 ms budget is not          *)
(* exceeded, and a scan that ends any other way returns false.             *)
(***************************************************************************)
C32_ModalScanInOrderWithinBudget ==
  [][ /\ mtResult'.kind # "threw"
      /\ mtLog' = SubSeq(authTriggers, 1, Len(mtLog'))
      /\ (mtResult'.kind = "returned" => (mtResult'.value <=> mtLast' = "modal"))
      /\ (mtResult.kind = "returned" => mtLog' = mtLog /\ mtResult' = mtResult)
      /\ (mtLog' # mtLog => mtElapsed <= maxAttemptTime /\ mtLast # "modal")
      /\ (mtLast = "raises" /\ mtResult = NoModalResult /\ Len(mtLog) < Len(authTriggers)
            /\ mtElapsed <= maxAttemptTime
          => ENABLED (\E o \in TriggerOutcomes, d \in TriggerDurations : TryTrigger(o, d)))
      /\ (mtResult'.kind = "returned" /\ ~mtResult'.value
          => Len(mtLog') = Len(authTriggers) \/ mtElapsed' > maxAttemptTime)
    ]_vars

\* The third trigger revealed a modal after two that did not, 2300 ms into the scan,
\* and the call returned true.
C32_Witness ==
  /\ mtResult = [kind |-> "returned", value |-> TRUE]
  /\ Len(mtLog) = 3
  /\ mtElapsed = 2300

(***************************************************************************)
(* C36: whenever extractAllContent returns modalTriggered = true, the html *)
(* it returns was serialized from the DOM after the modal was revealed.    *)
(***************************************************************************)
C36_HtmlSerializedAfterModal ==
  eaResult.modalTriggered => eaResult.html = "withModal"

(***************************************************************************)
(* C33: parseAIResponse extracts the first balanced {...} block of the     *)
(* text and parses it: when that block is a JSON object, trailing commas   *)
(* and comments allowed, whatever prose (braces included) surrounds it,    *)
(* the object is the result; the error is raised only when there is no     *)
(* such block or the block is not an object.                               *)
(***************************************************************************)
RECURSIVE BalancedEnd(_, _, _)
BalancedEnd(t, i, depth) ==
  IF i > Len(t) THEN 0
  ELSE IF t[i] = "{" THEN BalancedEnd(t, i + 1, depth + 1)
  ELSE IF t[i] = "}" THEN (IF depth = 1 THEN i ELSE BalancedEnd(t, i + 1, depth - 1))
  ELSE BalancedEnd(t, i + 1, depth)

FirstBalancedBlock(t) ==
  LET first == IndexFrom(t, "{", 1)
      last == IF first = 0 THEN 0 ELSE BalancedEnd(t, first, 0)
  IN  IF last = 0 THEN <<>> ELSE SubSeq(t, first, last)

TolerantObject(t) == DropTrailingCommas(DropComments(t))

C33_FirstBalancedBlockIsParsed ==
  paResult # NotParsed =>
    LET block == TolerantObject(FirstBalancedBlock(paText))
    IN  IF ParsesAsJSON(block)
        THEN paResult = [kind |-> "parsed", value |-> block]
        ELSE paResult.kind = "error"

(***************************************************************************)
(* C34: truncateSnippet returns an input of at most the cap unchanged;     *)
(* for a longer input the output is a prefix of at most the cap that does  *)
(* not end inside a tag, followed only by the closing tags of exactly the  *)
(* elements still open in that prefix, innermost first, a self-closing tag *)
(* contributing none.  An element is still open when its opening tag has   *)
(* no closing tag yet; a void element is never open.                       *)
(***************************************************************************)
RECURSIVE StillOpen(_, _, _)
StillOpen(s, pos, stack) ==
  IF pos > Len(s) THEN stack
  ELSE LET m == MatchTagAt(s, pos)
       IN  IF ~m.ok THEN StillOpen(s, pos + 1, stack)
           ELSE IF m.isClosing
           THEN StillOpen(s, m.last + 1,
                          IF stack # <<>> /\ stack[Len(stack)] = m.tagName
                          THEN SubSeq(stack, 1, Len(stack) - 1) ELSE stack)
           ELSE IF m.selfClosing \/ m.tagName \in VoidNames
           THEN StillOpen(s, m.last + 1, stack)
           ELSE StillOpen(s, m.last + 1, Append(stack, m.tagName))

C34_PrefixPlusClosersOfOpenElements ==
  truncOut # NotYet =>
    IF Len(truncIn) <= MAX_SNIPPET THEN truncOut = truncIn
    ELSE \E n \in 0..MAX_SNIPPET :
           LET prefix == SubSeq(truncIn, 1, n)
           IN  /\ LastIndexOf(prefix, "<") <= LastIndexOf(prefix, ">")
               /\ truncOut = prefix \o ClosingTags(StillOpen(prefix, 1, <<>>))

(***************************************************************************)
(* C35: on a cache miss with a successful scrape and detection the events  *)
(* of a request come in this order: the cache lookup, the page             *)
(* acquisition, the detection (the page open throughout), the closing of   *)
(* the page and the context by the handler, and only then the storing of   *)
(* the result in the cache.  So the page and the context are open while    *)
(* the handler awaits the detection, and they are closed in the step in    *)
(* which the handler hands the result to detectionCache.set.               *)
(***************************************************************************)
C35_ResultStoredAfterPageClosed ==
  [][\A r \in Requests :
       /\ rpc'[r] = "detect" => page'[r] = "open" /\ context'[r] = "open"
       /\ \A d \in RouteDetections :
            /\ rpc'[r] # rpc[r]
            /\ response[r] = NoResponse
            /\ response'[r] = DetectionResponse(d, FALSE)
            /\ set(reqUrl[r], d)
            => page[r] = "closed" /\ context[r] = "closed"
    ]_vars

(***************************************************************************)
(* C37: once the page of a request has been closed, no operation of that   *)
(* request is issued against it, the work of an extraction, a strategy     *)
(* attempt or a scrape that lost its timeout race included.                *)
(***************************************************************************)
C37_NoOperationOnClosedPage ==
  \A e \in bgLog : e.page = "open"

(***************************************************************************)
(* C38: the idle monitor never closes the browser while a context issued   *)
(* by createContext is still open: in the step in which a tick of the      *)
(* monitor starts closing a browser, no caller holds a context of that     *)
(* browser that it has not closed.                                         *)
(***************************************************************************)
C38_IdleMonitorSparesOpenContexts ==
  [][\A b \in Launches :
       closePending'[b] > closePending[b] =>
         \A c \in Callers : ~(pc[c] = "haveContext" /\ got[c] = b)
    ]_vars

(***************************************************************************)
(* C39: two parseable URLs that differ in scheme, in host (after one       *)
(* leading www. is stripped), in port, or in path (beyond a single         *)
(* trailing slash) never normalize to the same cache key.                  *)
(***************************************************************************)
C39_DistinctUrlsDistinctKeys ==
  /\ variation \in {"scheme", "host", "port", "segment"}
  /\ ParseURL(urlA).ok /\ ParseURL(urlB).ok
  /\ keyA # NotYet /\ keyB # NotYet
  => keyA # keyB

(***************************************************************************)
(* C40: every HTML snippet attached to a component, whether it was found   *)
(* by the AI's locator, by a fallback cascade or on the pattern path, has  *)
(* been passed through the truncator: it is at most the cap long, plus the *)
(* closing tags the truncator appended.                                    *)
(***************************************************************************)
C40_EverySnippetTruncated ==
  atSnippet # NotYet =>
    /\ atSnippet = truncateSnippet(atOuter)
    /\ \/ Len(atSnippet) <= MAX_SNIPPET
       \/ \E n \in 0..MAX_SNIPPET :
            /\ n <= Len(atSnippet)
            /\ SubSeq(atSnippet, 1, n) = SubSeq(atOuter, 1, n)
            /\ SubSeq(atSnippet, n + 1, Len(atSnippet))
                 = ClosingTags(OpenTags(SubSeq(atOuter, 1, n), 1, <<>>))

====
